---- MODULE Spec2Model ----
(***************************************************************************)
(* Scrap Yard: the replicated catalog (catalog.js) on top of the Ledger    *)
(* library (ledger.js): CRSQLiteDB, WebRTCManager and Ledger.              *)
(*                                                                         *)
(* Strings are modelled as sequences of code units (naturals) and an       *)
(* INTEGER column value k as the one-unit sequence <<k>>, so that every    *)
(* column value has the same shape and SQLite's value comparison is the    *)
(* lexicographic order.  Byte strings are sequences of 0..255.             *)
(***************************************************************************)
EXTENDS Integers, Sequences, FiniteSets, TLC

\* ---------------------------------------------------------------- bounds
MaxSites == 2
MaxWrites == 3
SiteIdLen == 4
MaxName == 2
MaxSince == 1
MaxLiveWrites == 2
MaxTurnWrites == 2
MaxInboundWrites == 1
\* The 64 KiB chunk of the file transfer, scaled down: CHUNK_SIZE bytes of
\* the model stand for the 65536 of transfer.js.
CHUNK_SIZE == 4
MaxFileLen == 6
MaxImports == 2
MaxClock == 90000
MaxConnects == 2
MaxBroadcasts == 2
MaxCandidates == 1
TickMs == 30000

\* ------------------------------------------------------------- universe
Replicas == {"A", "B"}
Ids == 1..MaxSites
Names == {<<n>> : n \in 1..MaxName}

Max(a, b) == IF a >= b THEN a ELSE b

\* The non-key columns of the sites table, in table order.
Cols == <<"name", "owner_id", "file_count", "updated_at">>
ColSet == {Cols[i] : i \in 1..Len(Cols)}
ColIndex(c) == CHOOSE i \in 1..Len(Cols) : Cols[i] = c
\* cr-sqlite's column id of the row-existence (causal length) record.
Sentinel == "-1"
Null == <<>>

\* ------------------------------------------------------ byte conversions
Pad == 64

RECURSIVE btoa(_)
btoa(b) ==
  IF Len(b) = 0 THEN <<>>
  ELSE IF Len(b) = 1 THEN <<b[1] \div 4, (b[1] % 4) * 16, Pad, Pad>>
  ELSE IF Len(b) = 2
    THEN <<b[1] \div 4, (b[1] % 4) * 16 + b[2] \div 16, (b[2] % 16) * 4, Pad>>
  ELSE <<b[1] \div 4, (b[1] % 4) * 16 + b[2] \div 16,
         (b[2] % 16) * 4 + b[3] \div 64, b[3] % 64>>
       \o btoa(SubSeq(b, 4, Len(b)))

\* atob throws on input that is not base64.
IsBase64(s) ==
  /\ Len(s) % 4 = 0
  /\ \A i \in 1..Len(s) : s[i] \in 0..Pad
  /\ \A i \in 1..Len(s) : s[i] = Pad =>
       /\ i > Len(s) - 2
       /\ \A j \in i..Len(s) : s[j] = Pad

RECURSIVE atob(_)
atob(s) ==
  IF Len(s) = 0 THEN <<>>
  ELSE LET rest == atob(SubSeq(s, 5, Len(s)))
           b1 == s[1] * 4 + s[2] \div 16
           b2 == (s[2] % 16) * 16 + s[3] \div 4
           b3 == (s[3] % 4) * 64 + s[4]
       IN IF s[3] = Pad THEN <<b1>> \o rest
          ELSE IF s[4] = Pad THEN <<b1, b2>> \o rest
          ELSE <<b1, b2, b3>> \o rest

uint8ToBase64(bytes) == btoa(bytes)
base64ToUint8(base64) == atob(base64)

\* crsql_site_id(): the replica's random identifier.
SiteSeed(r) == IF r = "A" THEN 171 ELSE 205
SiteIdBytes(r) == [i \in 1..SiteIdLen |-> (SiteSeed(r) * i) % 256]

\* CRSQLiteDB.open: the site id as a hex string, two digits per byte.
RECURSIVE HexOf(_)
HexOf(bytes) ==
  IF Len(bytes) = 0 THEN <<>>
  ELSE <<bytes[1] \div 16, bytes[1] % 16>> \o HexOf(Tail(bytes))

getSiteId(r) == HexOf(SiteIdBytes(r))

\* cr-sqlite's packed primary key of a one-column text key.
PackPk(id) == <<1, 11, id>>
IsPackedPk(pk) == Len(pk) = 3 /\ pk[1] = 1 /\ pk[2] = 11 /\ pk[3] \in Ids
UnpackPk(pk) == pk[3]

\* SQLite's comparison of two values of one column: a < b.
RECURSIVE ValLess(_, _)
ValLess(a, b) ==
  IF Len(b) = 0 THEN FALSE
  ELSE IF Len(a) = 0 THEN TRUE
  ELSE IF a[1] # b[1] THEN a[1] < b[1]
  ELSE ValLess(Tail(a), Tail(b))

\* ------------------------------------------------- the CRDT store engine
\* The column DEFAULTs of the schema.
DefaultRow == [c \in ColSet |-> IF c = "file_count" THEN <<0>> ELSE <<>>]
NoClk == [cv |-> 0, dbv |-> 0, site |-> <<>>, seq |-> 0]

EmptyStore ==
  [live |-> {},
   tbl |-> [i \in Ids |-> DefaultRow],
   clk |-> [i \in Ids |-> [c \in ColSet |-> NoClk]],
   sent |-> [i \in Ids |-> NoClk],
   ver |-> 0]

\* The causal length of a row: 0 never seen, odd alive, even deleted.
LocalCl(s, id) ==
  IF s.sent[id].cv > 0 THEN s.sent[id].cv
  ELSE IF \E c \in ColSet : s.clk[id][c].cv > 0 THEN 1
  ELSE 0

\* crsql_next_db_version(merging): one version per transaction.
NextDbVersion(s, merging) == Max(s.ver + 1, merging)

\* INSERT of a row whose key was never used: a clock row per column.
LocalInsert(s, site, id, row) ==
  LET v == NextDbVersion(s, 0)
  IN [s EXCEPT !.live = @ \cup {id},
               !.tbl[id] = row,
               !.clk[id] = [c \in ColSet |->
                  [cv |-> 1, dbv |-> v, site |-> site, seq |-> ColIndex(c) - 1]],
               !.ver = v]

\* UPDATE: a clock row is bumped for each column whose value changes.
LocalUpdate(s, site, id, row) ==
  LET changed == {c \in ColSet : row[c] # s.tbl[id][c]}
      v == NextDbVersion(s, 0)
      seqOf(c) == Cardinality({d \in changed : ColIndex(d) < ColIndex(c)})
  IN IF id \notin s.live \/ changed = {} THEN s
     ELSE [s EXCEPT !.tbl[id] = row,
                    !.clk[id] = [c \in ColSet |->
                       IF c \in changed
                         THEN [cv |-> s.clk[id][c].cv + 1, dbv |-> v,
                               site |-> site, seq |-> seqOf(c)]
                         ELSE s.clk[id][c]],
                    !.ver = v]

\* A DELETE that writes its tombstone whether or not the row is there.
LocalDeleteUnchecked(s, site, id) ==
  [s EXCEPT !.live = @ \ {id},
            !.tbl[id] = DefaultRow,
            !.clk[id] = [c \in ColSet |-> NoClk],
            !.sent[id] = [cv |-> s.sent[id].cv + 1, dbv |-> NextDbVersion(s, 0),
                          site |-> site, seq |-> 0],
            !.ver = NextDbVersion(s, 0)]

\* DELETE: the column clocks are dropped, the sentinel records the tombstone.
LocalDelete(s, site, id) ==
  LET v == NextDbVersion(s, 0)
  IN IF id \notin s.live THEN s
     ELSE [s EXCEPT !.live = @ \ {id},
                    !.tbl[id] = DefaultRow,
                    !.clk[id] = [c \in ColSet |-> NoClk],
                    !.sent[id] = [cv |-> LocalCl(s, id) + 1, dbv |-> v,
                                  site |-> site, seq |-> 0],
                    !.ver = v]

\* The cells (row, column id) a clock row can describe.
AllCells ==
  {<<i, c>> : i \in Ids, c \in ColSet} \cup {<<i, Sentinel>> : i \in Ids}

CellClock(s, cell) ==
  IF cell[2] = Sentinel THEN s.sent[cell[1]] ELSE s.clk[cell[1]][cell[2]]

CellBefore(s, x, y) ==
  LET a == CellClock(s, x)
      b == CellClock(s, y)
  IN \/ a.seq < b.seq
     \/ a.seq = b.seq /\ x[1] < y[1]
     \/ a.seq = b.seq /\ x[1] = y[1] /\ x[2] = Sentinel /\ y[2] # Sentinel

\* One row of the crsql_changes view.
ChangeRow(s, cell) ==
  LET k == CellClock(s, cell)
  IN [table |-> "sites",
      pk |-> PackPk(cell[1]),
      cid |-> cell[2],
      val |-> IF cell[2] = Sentinel THEN Null ELSE s.tbl[cell[1]][cell[2]],
      col_version |-> k.cv,
      db_version |-> k.dbv,
      site_id |-> k.site,
      cl |-> LocalCl(s, cell[1]),
      seq |-> k.seq]

\* The rows of one db_version, by seq.
RECURSIVE RowsOf(_, _)
RowsOf(s, S) ==
  IF S = {} THEN <<>>
  ELSE LET m == CHOOSE x \in S : \A y \in S \ {x} : CellBefore(s, x, y)
       IN <<ChangeRow(s, m)>> \o RowsOf(s, S \ {m})

RowsAt(s, v) ==
  RowsOf(s, {x \in AllCells : CellClock(s, x).cv > 0 /\ CellClock(s, x).dbv = v})

\* SELECT ... FROM crsql_changes WHERE db_version > since, which yields the
\* rows by db_version, then seq.
RECURSIVE RowsFrom(_, _)
RowsFrom(s, v) == IF v > s.ver THEN <<>> ELSE RowsAt(s, v) \o RowsFrom(s, v + 1)

\* The same SELECT with WHERE db_version > since + 1.
SelectChangesSkipping(s, since) == RowsFrom(s, since + 2)
SelectChanges(s, since) == RowsFrom(s, since + 1)

\* Whether INSERT INTO crsql_changes accepts the record at all.
MergeAccepts(ch) ==
  /\ ch.table = "sites"
  /\ IsPackedPk(ch.pk)
  /\ ch.cid \in ColSet \cup {Sentinel}

DidCidWin(s, id, ch) ==
  LET k == s.clk[id][ch.cid]
  IN IF k.cv = 0 THEN TRUE
     ELSE IF ch.col_version # k.cv THEN ch.col_version > k.cv
     ELSE ValLess(s.tbl[id][ch.cid], ch.val)

MergeDelete(s, id, ch, v) ==
  [s EXCEPT !.live = @ \ {id},
            !.tbl[id] = DefaultRow,
            !.clk[id] = [c \in ColSet |-> NoClk],
            !.sent[id] = [cv |-> ch.cl, dbv |-> v, site |-> ch.site_id, seq |-> ch.seq],
            !.ver = v]

MergeSentinelOnly(s, id, ch, v) ==
  [s EXCEPT !.live = @ \cup {id},
            !.tbl[id] = DefaultRow,
            !.clk[id] = [c \in ColSet |-> NoClk],
            !.sent[id] = [cv |-> ch.cl, dbv |-> v, site |-> ch.site_id, seq |-> ch.seq],
            !.ver = v]

MergeColumn(s, id, ch, v, resurrect) ==
  LET base == IF resurrect
                THEN [s EXCEPT !.tbl[id] = DefaultRow,
                               !.clk[id] = [c \in ColSet |-> NoClk],
                               !.sent[id] = [cv |-> ch.cl, dbv |-> v,
                                             site |-> ch.site_id, seq |-> ch.seq]]
                ELSE s
  IN [base EXCEPT !.live = @ \cup {id},
                  !.tbl[id][ch.cid] = ch.val,
                  !.clk[id][ch.cid] = [cv |-> ch.col_version, dbv |-> v,
                                       site |-> ch.site_id, seq |-> ch.seq],
                  !.ver = v]

\* INSERT INTO crsql_changes of one accepted record.
MergeInsert(s, ch) ==
  LET id == UnpackPk(ch.pk)
      lcl == LocalCl(s, id)
      v == NextDbVersion(s, ch.db_version)
  IN IF ch.cl < lcl THEN s
     ELSE IF ch.cl % 2 = 0
       THEN (IF ch.cl = lcl THEN s ELSE MergeDelete(s, id, ch, v))
     ELSE IF ch.cid = Sentinel
       THEN (IF ch.cl = lcl THEN s ELSE MergeSentinelOnly(s, id, ch, v))
     ELSE IF lcl # 0 /\ ch.cl > lcl THEN MergeColumn(s, id, ch, v, TRUE)
     ELSE IF lcl = 0 \/ DidCidWin(s, id, ch) THEN MergeColumn(s, id, ch, v, FALSE)
     ELSE s

\* ------------------------------------------------------------ the state
VARIABLES
  db,                   \* per replica: the cr-sqlite database
  dbVersion,            \* per replica: CRSQLiteDB.dbVersion, the cached version
  now,                  \* the wall clock read by timestamp()
  minted,               \* per site id: the replica whose generateId() drew it
  applying,             \* per replica: the applyChanges call in progress
  pending,              \* per replica: the catalog call suspended at an await
  connected,            \* per replica: Ledger.connected
  lastBroadcastVersion, \* per replica: Ledger.lastBroadcastVersion
  open,                 \* per replica: its data channel to the peer is open
  lastSyncedVersion,    \* per replica: peerConn.lastSyncedVersion
  inbox,                \* per replica: channel messages sent to it, in order
  blc,                  \* per replica: broadcastLocalChanges calls not yet run
  log,                  \* history: the catalog writes made so far
  atOpen,               \* history: per replica, its rows when its channel opened
  syncDone,             \* history: per replica, its sync-response was handled
  files,                \* per replica: the site_files object store
  pendingRequests,      \* per replica: transfer.js pendingRequests
  incomingTransfers,    \* per replica: transfer.js incomingTransfers
  imports,              \* per replica: its importSiteFromPeer calls
  tasks,                \* per replica: its suspended sendFile and finalize calls
  timers,               \* per replica: the setTimeout callbacks not yet run
  clock,                \* the time in ms
  stored,               \* history: per replica, the blobs the transfer stored
  streamed,             \* history: per replica, the messages of each sendFile call
  sig,                  \* the SignalingClient of one replica
  http,                 \* the service worker: its store, last request, response
  ledger,               \* the Ledger of one replica: its flags and its last connect
  rtc,                  \* the WebRTCManager of one replica: its peer table
  stranger,             \* what a third peer has sent of its own accord
  pair                  \* per replica: its session for the other, and the
                        \* signaling messages on their way to it

dbVars == <<db, dbVersion, now, minted, applying, pending>>
netVars == <<connected, lastBroadcastVersion, open, lastSyncedVersion, inbox>>
histVars == <<log, atOpen, syncDone>>
catalogVars == <<dbVars, netVars, blc, histVars>>
transferVars ==
  <<files, pendingRequests, incomingTransfers, imports, tasks, timers, clock,
    stored, streamed>>
sessionVars == <<ledger, rtc, stranger, pair>>
otherVars == <<transferVars, sig, http, sessionVars>>
\* What the file transfer leaves alone, the channels aside.
besideTransfer ==
  <<dbVars, connected, lastBroadcastVersion, lastSyncedVersion, blc, histVars,
    sig, http, ledger, rtc, pair>>
outsideTransfer == <<besideTransfer, stranger>>
vars == <<catalogVars, otherVars>>

NoOne == "none"
Other(r) == CHOOSE q \in Replicas : q # r

IdleApply ==
  [active |-> FALSE, batch |-> <<>>, kind |-> "none", version |-> 0,
   failed |-> FALSE, committed |-> 0]
IdleCall == [op |-> "idle", id |-> 0, site |-> DefaultRow, cols |-> {}, vals |-> DefaultRow]

\* ----------------------------------------------------------- CRSQLiteDB
\* Another way to read a version: SELECT count(*) FROM crsql_changes.
refreshVersionCount(s) == Cardinality({x \in AllCells : CellClock(s, x).cv > 0})
\* refreshVersion: SELECT crsql_db_version()
refreshVersion(s) == s.ver

\* getChanges with the row-existence records left out (AND cid != '-1').
getChangesLiveOnly(s, sinceVersion) ==
  LET rows == SelectSeq(SelectChanges(s, sinceVersion), LAMBDA x : x.cid # Sentinel)
  IN [i \in 1..Len(rows) |->
        [rows[i] EXCEPT !.pk = uint8ToBase64(@), !.site_id = uint8ToBase64(@)]]
\* getChanges: the rows newer than sinceVersion, byte strings as base64.
getChanges(s, sinceVersion) ==
  LET rows == SelectChanges(s, sinceVersion)
  IN [i \in 1..Len(rows) |->
        [rows[i] EXCEPT !.pk = uint8ToBase64(@), !.site_id = uint8ToBase64(@)]]

\* The decoded record without the causal length the sender gave (cl as 1).
DecodeChangeNoCl(change) ==
  [change EXCEPT !.pk = base64ToUint8(@), !.site_id = base64ToUint8(@), !.cl = 1]
\* One turn of applyChanges's loop: the decoded record handed to the engine.
DecodeChange(change) ==
  [change EXCEPT !.pk = base64ToUint8(@), !.site_id = base64ToUint8(@)]

\* Whether the turn throws: atob on a malformed string, or the engine.
ChangeThrows(change) ==
  \/ ~IsBase64(change.pk)
  \/ ~IsBase64(change.site_id)
  \/ ~MergeAccepts(DecodeChange(change))

ApplyOne(s, change) == MergeInsert(s, DecodeChange(change))

\* The cached version advanced by the size of the batch instead.
VersionAfterApplyCounting(s, v, changes) == v + Len(changes)
\* The version applyChanges caches once its loop over changes has ended on
\* store s, v being the version cached before the call: it is read again.
VersionAfterApply(s, v, changes) == refreshVersion(s)

\* applyChanges run to its end without interleaving: the store it leaves, and
\* whether it threw.
RECURSIVE ApplyTurns(_, _, _)
ApplyTurns(s, changes, n) ==
  IF n = 0 THEN [store |-> s, threw |-> FALSE]
  ELSE LET before == ApplyTurns(s, changes, n - 1)
       IN IF before.threw THEN before
          ELSE IF ChangeThrows(changes[n])
            THEN [store |-> before.store, threw |-> TRUE]
          ELSE [store |-> ApplyOne(before.store, changes[n]), threw |-> FALSE]

ApplyBatch(s, changes) == ApplyTurns(s, changes, Len(changes))

\* A database kept from an earlier session: replica A had added site 1 and
\* replica B had merged it.
SeedRow ==
  [DefaultRow EXCEPT !["name"] = <<1>>, !["owner_id"] = HexOf(SiteIdBytes("A")),
                     !["updated_at"] = <<1>>]
SeedStoreA == LocalInsert(EmptyStore, SiteIdBytes("A"), 1, SeedRow)
SeedStore(r) ==
  IF r = "A" THEN SeedStoreA
  ELSE ApplyBatch(EmptyStore, getChanges(SeedStoreA, 0)).store

InitCatalog ==
  /\ \E seeded \in BOOLEAN :
       /\ db = [r \in Replicas |-> IF seeded THEN SeedStore(r) ELSE EmptyStore]
       /\ now = IF seeded THEN 1 ELSE 0
       /\ minted = [i \in Ids |-> IF seeded /\ i = 1 THEN "A" ELSE NoOne]
  \* CRSQLiteDB.open ends with refreshVersion
  /\ dbVersion = [r \in Replicas |-> refreshVersion(db[r])]
  /\ applying = [r \in Replicas |-> IdleApply]
  /\ pending = [r \in Replicas |-> IdleCall]
  /\ connected = [r \in Replicas |-> FALSE]
  /\ lastBroadcastVersion = [r \in Replicas |-> 0]
  /\ open = [r \in Replicas |-> FALSE]
  /\ lastSyncedVersion = [r \in Replicas |-> 0]
  /\ inbox = [r \in Replicas |-> <<>>]
  /\ blc = [r \in Replicas |-> <<>>]
  /\ log = <<>>
  /\ atOpen = [r \in Replicas |-> {}]
  /\ syncDone = [r \in Replicas |-> FALSE]

\* No file transfer, no signaling session and no local request yet.
NoTransferState ==
  /\ files = [r \in Replicas |-> {}]
  /\ pendingRequests = [r \in Replicas |-> {}]
  /\ incomingTransfers = [r \in Replicas |-> {}]
  /\ imports = [r \in Replicas |-> <<>>]
  /\ tasks = [r \in Replicas |-> <<>>]
  /\ timers = [r \in Replicas |-> <<>>]
  /\ clock = 0
  /\ stored = [r \in Replicas |-> {}]
  /\ streamed = [r \in Replicas |-> {}]
NoEvent == [type |-> "none", attempt |-> 0]
\* The field initialisers of SignalingClient, and no socket yet.  The fields
\* byTimer, retries, lastEvent, joined and rejected are history: whether the
\* socket was made by the reconnect timer, the connects the timer made since
\* the last open, the last event emitted, whether join went out on the
\* socket, and whether the caller's connect() was rejected.
NoSignaling ==
  sig = [ws |-> "none", reconnectAttempts |-> 0, shouldReconnect |-> TRUE,
         isInitialConnect |-> TRUE, timer |-> 0, byTimer |-> FALSE, retries |-> 0,
         lastEvent |-> NoEvent, joined |-> FALSE, rejected |-> FALSE]
NoResponse == [status |-> 0, contentType |-> "", body |-> <<>>]
NoRequest == http = [url |-> <<>>, response |-> NoResponse, held |-> {}]

\* A Ledger not yet initialised, a WebRTCManager with no peer, and a third
\* peer that has sent nothing.
Undefined == "<undefined>"
NoConnect == [url |-> Undefined, token |-> Undefined, result |-> "none"]
NoLedger ==
  [config |-> [signalingUrl |-> Undefined, token |-> Undefined], initialized |-> FALSE,
   webrtc |-> FALSE, connected |-> FALSE, call |-> NoConnect, calls |-> 0]
\* peers is the Map in insertion order; the other fields are history: the
\* peers onPeerLeave was called for, the broadcasts made, and of the last
\* one the peers it was sent to, those whose channel was open and took it,
\* and those whose send threw.
NoPeers ==
  [peers |-> <<>>, left |-> {}, broadcasts |-> 0, sent |-> <<>>, takers |-> <<>>,
   failed |-> {}]
NoStranger == [list |-> FALSE, stream |-> 0]
NoSessionOf ==
  [has |-> FALSE, initiator |-> FALSE, local |-> "none", remote |-> "none",
   ready |-> FALSE, made |-> 0, gathered |-> 0, candidates |-> 0]
NoPair ==
  [sess |-> [r \in Replicas |-> NoSessionOf],
   net |-> [r \in Replicas |-> <<>>],
   roster |-> [r \in Replicas |-> FALSE]]
NoSession ==
  ledger = NoLedger /\ rtc = NoPeers /\ stranger = NoStranger /\ pair = NoPair

Init == InitCatalog /\ NoTransferState /\ NoSignaling /\ NoRequest /\ NoSession

\* --------------------------------------------------------------- Ledger
\* init's onUpdate hook: a row mutation calls broadcastLocalChanges, which
\* returns at once unless connected and otherwise reads lastBroadcastVersion
\* and suspends in getChanges.  A call behind an identical one is not kept.
Hook(r, newDb) ==
  IF connected[r] /\ newDb # db[r]
       /\ (Len(blc[r]) = 0 \/ blc[r][Len(blc[r])] # lastBroadcastVersion[r])
    THEN blc' = [blc EXCEPT ![r] = Append(@, lastBroadcastVersion[r])]
    ELSE UNCHANGED blc

\* ------------------------------------------------------------ catalog.js
timestamp == <<now + 1>>

\* generateId: crypto.randomUUID() never repeats.
FreshIds == {i \in Ids : minted[i] = NoOne /\ \A j \in Ids : j < i => minted[j] # NoOne}

Written == Len(log)
\* The writes made or begun: the model stops issuing calls at MaxWrites.
Budget == Written + Cardinality({q \in Replicas : pending[q].op # "idle"}) < MaxWrites
Entry(op, r, id, from) ==
  [op |-> op, by |-> r, id |-> id, from |-> from,
   live |-> \A q \in Replicas : open[q]]

getSite(s, id) == IF id \in s.live THEN s.tbl[id] ELSE DefaultRow
\* A lookup that takes every id for present.
hasSiteUnchecked(s, id) == TRUE
hasSite(s, id) == id \in s.live

getAllSites(r) == db[r].live
getMySites(r) == {i \in db[r].live : db[r].tbl[i]["owner_id"] = getSiteId(r)}
getAvailableSites(r) ==
  {i \in db[r].live : /\ db[r].tbl[i]["owner_id"] # getSiteId(r)
                      /\ db[r].tbl[i]["owner_id"] # <<>>}

\* The row with the owner taken from the fields when they carry one.
NewSiteSpread(r, fields) ==
  [c \in ColSet |->
     IF c = "owner_id" /\ fields[c] = <<>> THEN getSiteId(r)
     ELSE IF c = "updated_at" THEN timestamp
     ELSE fields[c]]
\* The row addSite inserts for the fields it is given.
NewSite(r, fields) ==
  [c \in ColSet |->
     IF c = "owner_id" THEN getSiteId(r)
     ELSE IF c = "updated_at" THEN timestamp
     ELSE fields[c]]

InsertSite(r, id, fields) ==
  LET newDb == LocalInsert(db[r], SiteIdBytes(r), id, NewSite(r, fields))
  IN /\ db' = [db EXCEPT ![r] = newDb]
     /\ Hook(r, newDb)
     /\ minted' = [minted EXCEPT ![id] = r]
     /\ now' = now + 1

addSite(r, name) ==
  /\ Budget
  /\ pending[r].op = "idle"
  /\ \E id \in FreshIds :
       /\ InsertSite(r, id, [DefaultRow EXCEPT !["name"] = name])
       /\ log' = Append(log, Entry("add", r, id, 0))
  /\ UNCHANGED <<dbVersion, applying, pending, netVars, atOpen, syncDone>>

\* updateSite up to its first await: the row is read, a missing row ends it.
updateSiteRead(r, id, cols, vals) ==
  /\ Budget
  /\ pending[r].op = "idle"
  /\ hasSite(db[r], id)
  /\ pending' = [pending EXCEPT ![r] =
        [op |-> "update", id |-> id, site |-> getSite(db[r], id),
         cols |-> cols, vals |-> vals]]
  /\ UNCHANGED <<db, dbVersion, now, minted, applying, netVars, blc, histVars>>

\* { ...site, ...updates, updated_at: now }
Updated(p) ==
  [c \in ColSet |->
     IF c = "updated_at" THEN timestamp
     ELSE IF c \in p.cols THEN p.vals[c]
     ELSE p.site[c]]

\* updateSite after the await: every column is written from what was read.
updateSiteWrite(r) ==
  /\ pending[r].op = "update"
  /\ LET newDb == LocalUpdate(db[r], SiteIdBytes(r), pending[r].id, Updated(pending[r]))
     IN /\ db' = [db EXCEPT ![r] = newDb]
        /\ Hook(r, newDb)
  /\ now' = now + 1
  /\ pending' = [pending EXCEPT ![r] = IdleCall]
  /\ log' = Append(log, Entry("update", r, pending[r].id, 0))
  /\ UNCHANGED <<dbVersion, minted, applying, netVars, atOpen, syncDone>>

removeSite(r, id) ==
  /\ Budget
  /\ pending[r].op = "idle"
  /\ LET newDb == LocalDelete(db[r], SiteIdBytes(r), id)
     IN /\ db' = [db EXCEPT ![r] = newDb]
        /\ Hook(r, newDb)
  /\ log' = Append(log, Entry("remove", r, id, 0))
  /\ UNCHANGED <<dbVersion, now, minted, applying, pending, netVars, atOpen, syncDone>>

\* adoptSite up to its first await: the original is read, a missing one throws.
adoptSiteRead(r, originalId) ==
  /\ Budget
  /\ pending[r].op = "idle"
  /\ FreshIds # {}
  /\ hasSite(db[r], originalId)
  /\ pending' = [pending EXCEPT ![r] =
        [op |-> "adopt", id |-> originalId, site |-> getSite(db[r], originalId),
         cols |-> {}, vals |-> DefaultRow]]
  /\ UNCHANGED <<db, dbVersion, now, minted, applying, netVars, blc, histVars>>

\* adoptSite after the await: addSite with the fields of the original.
adoptSiteAdd(r) ==
  /\ pending[r].op = "adopt"
  /\ \E id \in FreshIds :
       /\ InsertSite(r, id, pending[r].site)
       /\ log' = Append(log, Entry("adopt", r, id, pending[r].id))
  /\ pending' = [pending EXCEPT ![r] = IdleCall]
  /\ UNCHANGED <<dbVersion, applying, netVars, atOpen, syncDone>>

\* The patches the callers pass: a new name, or updateSiteFileStats.
Patches ==
  {[cols |-> {"name"}, vals |-> [DefaultRow EXCEPT !["name"] = n]] : n \in Names \ {<<1>>}}
  \cup {[cols |-> {"file_count"}, vals |-> [DefaultRow EXCEPT !["file_count"] = <<3>>]]}

\* updateSite with nothing interleaved at its await.
updateSite(r, id, cols, vals) ==
  /\ Budget
  /\ pending[r].op = "idle"
  /\ hasSite(db[r], id)
  /\ \E p \in {[op |-> "update", id |-> id, site |-> getSite(db[r], id),
                cols |-> cols, vals |-> vals]} :
       \E newDb \in {LocalUpdate(db[r], SiteIdBytes(r), id, Updated(p))} :
          /\ db' = [db EXCEPT ![r] = newDb]
          /\ Hook(r, newDb)
  /\ now' = now + 1
  /\ log' = Append(log, Entry("update", r, id, 0))
  /\ UNCHANGED <<dbVersion, minted, applying, pending, netVars, atOpen, syncDone>>

\* adoptSite with nothing interleaved at its await.
adoptSite(r, originalId) ==
  /\ Budget
  /\ pending[r].op = "idle"
  /\ hasSite(db[r], originalId)
  /\ \E id \in FreshIds :
       /\ InsertSite(r, id, getSite(db[r], originalId))
       /\ log' = Append(log, Entry("adopt", r, id, originalId))
  /\ UNCHANGED <<dbVersion, applying, pending, netVars, atOpen, syncDone>>

\* adoptSite of an id getSite finds no row for: 'Site not found' is thrown
\* before addSite is reached.
adoptSiteNotFound(r, originalId) ==
  /\ Budget
  /\ pending[r].op = "idle"
  /\ ~hasSite(db[r], originalId)
  /\ log' = Append(log, Entry("adopt-notfound", r, 0, originalId))
  /\ UNCHANGED <<dbVars, netVars, blc, atOpen, syncDone>>

\* updateSite of an id getSite finds no row for: null is returned before
\* timestamp, the UPDATE and notifyChange are reached.
updateSiteNotFound(r, id) ==
  /\ Budget
  /\ pending[r].op = "idle"
  /\ ~hasSite(db[r], id)
  /\ log' = Append(log, Entry("update-notfound", r, id, 0))
  /\ UNCHANGED <<dbVars, netVars, blc, atOpen, syncDone>>

\* The catalog's calls, each as a whole.
CatalogCall ==
  \E r \in Replicas :
    \/ addSite(r, <<1>>)
    \/ \E id \in Ids, p \in Patches : updateSite(r, id, p.cols, p.vals)
    \/ \E id \in Ids : removeSite(r, id)
    \/ \E id \in Ids : adoptSite(r, id)
    \/ \E id \in Ids : adoptSiteNotFound(r, id)

\* The catalog's calls up to their first await.
CatalogBegin ==
  \E r \in Replicas :
    \/ addSite(r, <<1>>)
    \/ \E id \in Ids, p \in Patches : updateSiteRead(r, id, p.cols, p.vals)
    \/ \E id \in Ids : removeSite(r, id)
    \/ \E id \in Ids : adoptSiteRead(r, id)

\* The suspended calls resumed.
CatalogResume ==
  \E r \in Replicas :
    \/ updateSiteWrite(r)
    \/ adoptSiteAdd(r)

\* ------------------------------------------------ applyChanges, by turns
beginApply(r, changes, kind, version) ==
  applying' = [applying EXCEPT ![r] =
     [active |-> TRUE, batch |-> changes, kind |-> kind, version |-> version,
      failed |-> FALSE, committed |-> 0]]

\* One turn of the loop: decode and INSERT INTO crsql_changes, or throw.
applyTurn(r) ==
  /\ applying[r].active
  /\ Len(applying[r].batch) > 0
  /\ LET change == Head(applying[r].batch)
     IN IF ChangeThrows(change)
          THEN /\ applying' = [applying EXCEPT ![r].active = FALSE,
                                               ![r].batch = <<>>,
                                               ![r].failed = TRUE]
               /\ UNCHANGED <<db, blc>>
          ELSE LET newDb == ApplyOne(db[r], change)
               IN /\ db' = [db EXCEPT ![r] = newDb]
                  /\ Hook(r, newDb)
                  /\ applying' = [applying EXCEPT
                       ![r].batch = Tail(@),
                       ![r].committed = IF newDb # db[r] THEN @ + 1 ELSE @]
  /\ UNCHANGED <<dbVersion, now, minted, pending, netVars, histVars>>

\* After the loop: refreshVersion, then the message handler's last lines.
applyEnd(r) ==
  /\ applying[r].active
  /\ Len(applying[r].batch) = 0
  /\ dbVersion' = [dbVersion EXCEPT
       ![r] = VersionAfterApply(db[r], @, applying[r].batch)]
  /\ applying' = [applying EXCEPT ![r].active = FALSE]
  /\ lastSyncedVersion' =
       IF applying[r].kind \in {"sync-response", "changes"}
         THEN [lastSyncedVersion EXCEPT ![r] = applying[r].version]
         ELSE lastSyncedVersion
  /\ syncDone' = IF applying[r].kind = "sync-response"
                   THEN [syncDone EXCEPT ![r] = TRUE] ELSE syncDone
  /\ UNCHANGED <<db, now, minted, pending, connected, lastBroadcastVersion,
                 open, inbox, blc, log, atOpen>>

\* ------------------------------------------- applyChanges, as one call
\* The whole call with nothing interleaved: the loop's turns up to the first
\* throw, the hook for the rows they changed, and refreshVersion at the end
\* unless a turn threw.
applyChanges(r, changes) ==
  \E res \in {ApplyBatch(db[r], changes)} :
     /\ ~applying[r].active
     /\ db' = [db EXCEPT ![r] = res.store]
     /\ Hook(r, res.store)
     /\ applying' = [applying EXCEPT ![r] =
          [IdleApply EXCEPT !.failed = res.threw,
                            !.committed = IF res.store # db[r] THEN 1 ELSE 0]]

\* ------------------------------------------- direct exchange of changes
\* dst.applyChanges(src.getChanges(since)): both calls refresh a version.
exchange(src, dst, since) ==
  /\ src # dst
  /\ \E changes \in {getChanges(db[src], since)} :
       /\ applyChanges(dst, changes)
       /\ dbVersion' = [dbVersion EXCEPT
            ![src] = refreshVersion(db[src]),
            ![dst] = IF applying'[dst].failed THEN @
                     ELSE VersionAfterApply(db'[dst], @, changes)]
  /\ UNCHANGED <<now, minted, pending, netVars, histVars>>

\* The same exchange with dst's applyChanges suspended at its awaits.
exchangeByTurns(src, dst, since) ==
  /\ src # dst
  /\ ~applying[dst].active
  /\ dbVersion' = [dbVersion EXCEPT ![src] = refreshVersion(db[src])]
  /\ beginApply(dst, getChanges(db[src], since), "direct", 0)
  /\ UNCHANGED <<db, now, minted, pending, netVars, blc, histVars>>

\* ------------------------------------ changes of a peer outside the model
\* The site id of a third peer, and the name of the replica standing for it.
ForeignSite == [i \in 1..SiteIdLen |-> (239 * i) % 256]
Foreign == "C"

ForeignChange(id, cid, val, seq) ==
  [table |-> "sites", pk |-> uint8ToBase64(PackPk(id)), cid |-> cid, val |-> val,
   col_version |-> 1, db_version |-> 1, site_id |-> uint8ToBase64(ForeignSite),
   cl |-> 1, seq |-> seq]

\* The batches such a peer sends for a row it added: one of the current
\* schema, one of the earlier schema (its column cached is unknown here), and
\* one whose second record was damaged on the way (no base64 in pk).
ForeignBatches(id) ==
  { <<ForeignChange(id, "name", <<2>>, 0),
      ForeignChange(id, "owner_id", HexOf(ForeignSite), 1)>>,
    <<ForeignChange(id, "name", <<2>>, 0),
      ForeignChange(id, "cached", <<0>>, 1)>>,
    <<ForeignChange(id, "name", <<2>>, 0),
      [ForeignChange(id, "owner_id", HexOf(ForeignSite), 1) EXCEPT !.pk = <<Pad + 1>>]>> }

\* handleChannelMessage, case changes, for a batch of that peer.
receiveForeign(r) ==
  \E id \in FreshIds : \E changes \in ForeignBatches(id) :
     /\ applyChanges(r, changes)
     /\ minted' = [minted EXCEPT ![id] = Foreign]
     /\ dbVersion' = [dbVersion EXCEPT
          ![r] = IF applying'[r].failed THEN @
                 ELSE VersionAfterApply(db'[r], @, changes)]
     /\ UNCHANGED <<now, pending, netVars, histVars>>

\* --------------------------------------------- WebRTCManager and Ledger
Send(to, msg) == inbox' = [inbox EXCEPT ![to] = Append(@, msg)]

\* Ledger.connect: the session manager is created and signaling joined.
connect(r) ==
  /\ ~connected[r]
  /\ connected' = [connected EXCEPT ![r] = TRUE]
  /\ lastBroadcastVersion' = [lastBroadcastVersion EXCEPT ![r] = dbVersion[r]]
  /\ UNCHANGED <<dbVars, open, lastSyncedVersion, inbox, blc, histVars>>

\* The version a sync-request carries: getLocalVersion().
SyncRequestVersion(r) == dbVersion[r]

\* dc.onopen: ready, then sync-request with the local version.
onopen(r) ==
  /\ connected[r] /\ connected[Other(r)]
  /\ ~open[r]
  /\ open' = [open EXCEPT ![r] = TRUE]
  /\ Send(Other(r), [type |-> "sync-request", changes |-> <<>>,
                     version |-> SyncRequestVersion(r)])
  /\ atOpen' = [atOpen EXCEPT ![r] = db[r].live]
  /\ UNCHANGED <<dbVars, connected, lastBroadcastVersion, lastSyncedVersion,
                 blc, log, syncDone>>

\* The changes a sync-request for sinceVersion is answered with.
onSyncRequest(r, sinceVersion) == getChanges(db[r], sinceVersion)

\* handleChannelMessage, case sync-request.
handleSyncRequest(r) ==
  /\ open[r]
  /\ Len(inbox[r]) > 0
  /\ Head(inbox[r]).type = "sync-request"
  /\ dbVersion' = [dbVersion EXCEPT ![r] = refreshVersion(db[r])]
  /\ inbox' = [inbox EXCEPT
       ![r] = Tail(@),
       ![Other(r)] = Append(@, [type |-> "sync-response",
                                changes |-> onSyncRequest(r, Head(inbox[r]).version),
                                version |-> refreshVersion(db[r])])]
  /\ UNCHANGED <<db, now, minted, applying, pending, connected,
                 lastBroadcastVersion, open, lastSyncedVersion, blc, histVars>>

\* The version that is stored whether or not the apply threw.
lastSyncedWhatever(previous, version, threw) == version
\* peerConn.lastSyncedVersion after the handler: its last line assigns the
\* message's version, and a throw of the await before it skips the line.
lastSyncedAfter(previous, version, threw) == IF threw THEN previous ELSE version

\* handleChannelMessage, cases sync-response and changes.
handleChanges(r) ==
  /\ open[r]
  /\ Len(inbox[r]) > 0
  /\ Head(inbox[r]).type \in {"sync-response", "changes"}
  /\ inbox' = [inbox EXCEPT ![r] = Tail(@)]
  /\ LET msg == Head(inbox[r])
     IN /\ IF Len(msg.changes) > 0
             THEN applyChanges(r, msg.changes)
             ELSE /\ applying' = [applying EXCEPT ![r] = IdleApply]
                  /\ UNCHANGED <<db, blc>>
        \* a throw ends the handler before its last lines
        /\ lastSyncedVersion' = [lastSyncedVersion EXCEPT ![r] =
             lastSyncedAfter(@, msg.version, applying'[r].failed)]
        /\ IF applying'[r].failed
             THEN UNCHANGED <<dbVersion, syncDone>>
             ELSE /\ dbVersion' = [dbVersion EXCEPT ![r] =
                        IF Len(msg.changes) > 0
                          THEN VersionAfterApply(db'[r], @, msg.changes) ELSE @]
                  /\ syncDone' = IF msg.type = "sync-response"
                                   THEN [syncDone EXCEPT ![r] = TRUE] ELSE syncDone
  /\ UNCHANGED <<now, minted, pending, connected, lastBroadcastVersion,
                 open, log, atOpen>>

\* The changes since the version the database has now: none.
ChangesSinceNow(r, lastVersion) == getChanges(db[r], refreshVersion(db[r]))
\* The changes broadcastLocalChanges collects: those since lastBroadcastVersion
\* as it was when the call began.
ChangesToBroadcast(r, lastVersion) == getChanges(db[r], lastVersion)

\* broadcastLocalChanges from its getChanges on, and broadcastChanges.
broadcastLocalChanges(r) ==
  /\ Len(blc[r]) > 0
  /\ blc' = [blc EXCEPT ![r] = Tail(@)]
  /\ dbVersion' = [dbVersion EXCEPT ![r] = refreshVersion(db[r])]
  /\ LET changes == ChangesToBroadcast(r, Head(blc[r]))
         version == refreshVersion(db[r])
     IN IF Len(changes) > 0
          THEN /\ lastBroadcastVersion' = [lastBroadcastVersion EXCEPT ![r] = version]
               /\ IF open[r]
                    THEN /\ Send(Other(r), [type |-> "changes", changes |-> changes,
                                            version |-> version])
                         /\ lastSyncedVersion' = [lastSyncedVersion EXCEPT ![r] = version]
                    ELSE UNCHANGED <<inbox, lastSyncedVersion>>
          ELSE UNCHANGED <<lastBroadcastVersion, inbox, lastSyncedVersion>>
  /\ UNCHANGED <<db, now, minted, applying, pending, connected, open, histVars>>

\* -------------------------------------------------------- specifications
\* Two replicas that are never connected and exchange changes directly.
NextStore ==
  \/ CatalogCall /\ UNCHANGED otherVars
  \/ \E src \in Replicas, dst \in Replicas, since \in 0..MaxSince :
       exchange(src, dst, since) /\ UNCHANGED otherVars

SpecStore == Init /\ [][NextStore]_vars

\* The catalog's calls alone, updateSite of a missing id among them.
NextCalls ==
  \/ CatalogCall /\ UNCHANGED otherVars
  \/ \E r \in Replicas, id \in Ids : updateSiteNotFound(r, id) /\ UNCHANGED otherVars

SpecCalls == Init /\ [][NextCalls]_vars

\* The same, both replicas starting from a new database.
InitFresh == Init /\ db = [r \in Replicas |-> EmptyStore]
SpecFresh == InitFresh /\ [][NextStore]_vars

\* The same with applyChanges and the catalog's calls suspended at their
\* awaits, every exchange being of all changes.
NextTurns ==
  \/ Written + Cardinality({q \in Replicas : pending[q].op # "idle"}) < MaxTurnWrites
       /\ CatalogBegin /\ UNCHANGED otherVars
  \/ CatalogResume /\ UNCHANGED otherVars
  \/ \E src \in Replicas, dst \in Replicas :
       exchangeByTurns(src, dst, 0) /\ UNCHANGED otherVars
  \/ \E r \in Replicas : applyTurn(r) /\ UNCHANGED otherVars
  \/ \E r \in Replicas : applyEnd(r) /\ UNCHANGED otherVars

SpecTurns == InitFresh /\ [][NextTurns]_vars

\* Two replicas that also receive the changes of a third peer.
NextInbound ==
  \/ Written < MaxInboundWrites /\ CatalogCall /\ UNCHANGED otherVars
  \/ \E src \in Replicas, dst \in Replicas, since \in 0..MaxSince :
       exchange(src, dst, since) /\ UNCHANGED otherVars
  \/ \E r \in Replicas : receiveForeign(r) /\ UNCHANGED otherVars

SpecInbound == InitFresh /\ [][NextInbound]_vars

\* Two replicas in one room, each starting from a new database.
Next ==
  \/ Written < MaxLiveWrites /\ CatalogCall /\ UNCHANGED otherVars
  \/ \E r \in Replicas : connect(r) /\ UNCHANGED otherVars
  \/ \E r \in Replicas : onopen(r) /\ UNCHANGED otherVars
  \/ \E r \in Replicas : handleSyncRequest(r) /\ UNCHANGED otherVars
  \/ \E r \in Replicas : handleChanges(r) /\ UNCHANGED otherVars
  \/ \E r \in Replicas : broadcastLocalChanges(r) /\ UNCHANGED otherVars

Spec == InitFresh /\ [][Next]_vars

\* The peer's message carries a batch like those of ForeignBatches: of the
\* current schema, of the earlier one, or damaged on the way.
peerSendsBatch(r) ==
  /\ open[r] /\ syncDone[r]
  /\ \E id \in FreshIds, type \in {"sync-response", "changes"} :
       \E changes \in ForeignBatches(id) :
         /\ Send(r, [type |-> type, changes |-> changes,
                     version |-> lastSyncedVersion[r] + 1])
         /\ minted' = [minted EXCEPT ![id] = Foreign]
  /\ UNCHANGED <<db, dbVersion, now, applying, pending, connected,
                 lastBroadcastVersion, open, lastSyncedVersion, blc, histVars>>

\* Two replicas in one room whose peer's batches may fail to apply.
NextChannel ==
  \/ \E r \in Replicas : connect(r) /\ UNCHANGED otherVars
  \/ \E r \in Replicas : onopen(r) /\ UNCHANGED otherVars
  \/ \E r \in Replicas : handleSyncRequest(r) /\ UNCHANGED otherVars
  \/ \E r \in Replicas : handleChanges(r) /\ UNCHANGED otherVars
  \/ \E r \in Replicas : broadcastLocalChanges(r) /\ UNCHANGED otherVars
  \/ \E r \in Replicas : peerSendsBatch(r) /\ UNCHANGED otherVars

SpecChannel == InitFresh /\ [][NextChannel]_vars

\* When each handler can run.
CanHandleSyncRequest(r) ==
  open[r] /\ Len(inbox[r]) > 0 /\ Head(inbox[r]).type = "sync-request"
CanHandleChanges(r) ==
  open[r] /\ Len(inbox[r]) > 0 /\ Head(inbox[r]).type \in {"sync-response", "changes"}
CanBroadcast(r) == Len(blc[r]) > 0

\* The event loop runs every handler whose message has arrived and every
\* broadcastLocalChanges call that was begun: weak fairness of the three,
\* WF_vars(A) spelled out with A's guard for ENABLED <<A>>_vars.
Fairness ==
  \A r \in Replicas :
    /\ []<>(~CanHandleSyncRequest(r)) \/ []<><<handleSyncRequest(r)>>_vars
    /\ []<>(~CanHandleChanges(r)) \/ []<><<handleChanges(r)>>_vars
    /\ []<>(~CanBroadcast(r)) \/ []<><<broadcastLocalChanges(r)>>_vars

SpecLive == Spec /\ Fairness

\* ============================================================ properties
Last(seq) == seq[Len(seq)]

\* dst has nothing left to take from src: applying all of src's changes
\* leaves dst's database as it is.
Absorbed(src, dst) ==
  LET res == ApplyBatch(db[dst], getChanges(db[src], 0))
  IN ~res.threw /\ res.store = db[dst]

InSync == Absorbed("A", "B") /\ Absorbed("B", "A")

\* The rows of the sites table as SELECT * returns them.
Rows(r) == [live |-> db[r].live, tbl |-> db[r].tbl]

\* A remove took effect on r's copy of the row.
Tombstoned(r, id) == db[r].sent[id].cv > 0 /\ db[r].sent[id].cv % 2 = 0

\* C1. Catalog convergence: once two replicas have exchanged all their change
\* records through getChanges/applyChanges, whatever the writes and the order
\* and number of the rounds, they hold the same rows with the same values.
CatalogConvergence == InSync => Rows("A") = Rows("B")

\* Both replicas updated the same row, which both still hold, and they are
\* in sync.
ConvergedAfterWrites ==
  /\ InSync
  /\ db["A"].live # {}
  /\ \E i \in 1..Len(log), j \in 1..Len(log) :
       /\ log[i].by = "A" /\ log[j].by = "B"
       /\ log[i].op = "update" /\ log[j].op = "update"
       /\ log[i].id = log[j].id
       /\ log[i].id \in db["A"].live

\* C4. Idempotent apply: applying a change batch a second time leaves the
\* store (rows, clocks, engine version) and the cached version as the first
\* application left them.
IdempotentApply ==
  \A dst \in Replicas, src \in Replicas, since \in 0..MaxSince :
    LET changes == getChanges(db[src], since)
        once == ApplyBatch(db[dst], changes)
        v1 == IF once.threw THEN dbVersion[dst]
              ELSE VersionAfterApply(once.store, dbVersion[dst], changes)
        twice == ApplyBatch(once.store, changes)
        v2 == IF twice.threw THEN v1
              ELSE VersionAfterApply(twice.store, v1, changes)
    IN twice.store = once.store /\ v2 = v1

\* A batch of the peer that changes the local rows when applied.
BatchChangesRows ==
  \E since \in 0..MaxSince :
    LET changes == getChanges(db["A"], since)
        once == ApplyBatch(db["B"], changes)
    IN /\ Len(changes) > 1
       /\ db["B"].live # {}
       /\ once.store.tbl # db["B"].tbl

\* C6. Version monotonicity: across local writes, getChanges, applyChanges
\* and the refreshes they make, version() of an instance never decreases.
VersionMonotone ==
  [][\A r \in Replicas : dbVersion'[r] >= dbVersion[r]]_vars

\* A version that advanced through refreshes after writes of both replicas.
VersionAdvanced ==
  \E r \in Replicas :
    /\ dbVersion[r] >= 2
    /\ \E i \in 1..Len(log) : log[i].by = r
    /\ \E i \in 1..Len(log) : log[i].by # r /\ log[i].id \in db[r].live

\* C7. version() advances on every tracked write: a catalog write that
\* changes the local database leaves version() strictly greater.
VersionAdvancesOnWrite ==
  [][\A r \in Replicas :
       (Len(log') = Len(log) + 1 /\ Last(log').by = r /\ db'[r] # db[r])
         => dbVersion'[r] > dbVersion[r]]_vars

DeletePropagation ==
  InSync =>
    \A id \in Ids :
      /\ (\E r \in Replicas : Tombstoned(r, id))
           => \A r \in Replicas : ~hasSite(db[r], id)
      /\ (minted[id] # NoOne /\ \A r \in Replicas : ~Tombstoned(r, id))
           => \A r \in Replicas : hasSite(db[r], id)

\* B updated a row, A then removed it, B then added a row, and they synced.
RemovedUpdatedThenAdded ==
  /\ InSync
  /\ \E i \in 1..Len(log), j \in 1..Len(log), k \in 1..Len(log) :
       /\ i < j /\ j < k
       /\ log[i].op = "update" /\ log[i].by = "B"
       /\ log[j].op = "remove" /\ log[j].by = "A" /\ log[j].id = log[i].id
       /\ log[k].op = "add" /\ log[k].by = "B"
       /\ Tombstoned("B", log[j].id)
       /\ \A r \in Replicas : hasSite(db[r], log[k].id)

\* Nothing is in flight: no message unhandled, no broadcast call pending.
Quiet == \A r \in Replicas : inbox[r] = <<>> /\ blc[r] = <<>>

\* C2. Initial sync on join: once the sync-request/sync-response exchange has
\* completed in both directions and nothing more is in flight, every row a
\* replica had written when its channel opened (and that neither has removed
\* since) is among the peer's available sites, with the writer as owner.
InitialSync ==
  (Quiet /\ \A r \in Replicas : syncDone[r]) =>
    \A r \in Replicas : \A id \in atOpen[r] \cap db[r].live :
      (minted[id] = r /\ ~Tombstoned(Other(r), id)) =>
        /\ id \in getAvailableSites(Other(r))
        /\ db[Other(r)].tbl[id]["owner_id"] = getSiteId(r)

\* Every write so far was made with the channel open at both replicas.
AllLive == \A i \in 1..Len(log) : log[i].live

\* C3. Live propagation: the writes made while both replicas have the channel
\* open are eventually delivered, after which both hold the same rows and
\* my-sites of each replica is the rows it created.
LivePropagation ==
  <>[](AllLive =>
         /\ Rows("A") = Rows("B")
         /\ \A r \in Replicas :
              getMySites(r) = {id \in db[r].live : minted[id] = r})

\* A added a site, then B added a site, both with the channel open, and all
\* of it was delivered.
BothAddedLive ==
  /\ Quiet
  /\ Len(log) = 2 /\ AllLive
  /\ log[1].op = "add" /\ log[1].by = "A"
  /\ log[2].op = "add" /\ log[2].by = "B"
  /\ \A r \in Replicas : getAllSites(r) = {log[1].id, log[2].id}
  /\ getMySites("A") = {log[1].id}
  /\ getMySites("B") = {log[2].id}

\* C5. Atomic apply: an applyChanges call in which a record failed leaves the
\* store as it was before the call.
AtomicApply ==
  \A r \in Replicas : applying[r].failed => applying[r].committed = 0

\* C8. Owner stability: outside a merge in progress, the owner_id of every
\* row is the node id of the replica that created it.
OwnerStable ==
  \A r \in Replicas : \A id \in db[r].live :
    (~applying[r].active /\ minted[id] \in Replicas)
      => db[r].tbl[id]["owner_id"] = getSiteId(minted[id])

\* ========================================================= persistence.js
\* A string that is parsed (a path, a URL) is a sequence of tokens: "/", "."
\* or a word holding neither.  A blob is a sequence of bytes.
IndexHtml == <<"index", ".", "html">>
AppJs == <<"assets", "/", "app", ".", "js">>
Slash == <<"/">>

\* The primary key of the site_files object store.
FileKey(siteId, path) == siteId \o Slash \o path

\* storeFile: store.put, which replaces the record of the same key.
storeFile(store, siteId, path, content, contentType) ==
  {f \in store : f.key # FileKey(siteId, path)} \cup
    {[key |-> FileKey(siteId, path), siteId |-> siteId, path |-> path,
      contentType |-> contentType, content |-> content, size |-> Len(content)]}

\* getFile / getFileFromDB: store.get(key), the record or none.
HasFile(store, siteId, path) == \E f \in store : f.key = FileKey(siteId, path)
getFile(store, siteId, path) == CHOOSE f \in store : f.key = FileKey(siteId, path)

\* getFilesForSite / getAllFilesForSite: index.getAll(siteId).
getFilesForSite(store, siteId) == {f \in store : f.siteId = siteId}

\* ======================================================== service worker
\* The paths of the model in the order of their keys, which is the order
\* index.getAll returns records of one site in.
ServePaths ==
  << <<"Index", ".", "html">>,
     <<"about", ".", "html">>,
     AppJs,
     <<"docs", "/", "index", ".", "html">>,
     IndexHtml,
     <<"missing", ".", "html">>,
     <<"missing", "/", "index", ".", "html">> >>
KeyRank(path) == CHOOSE i \in 1..Len(ServePaths) : ServePaths[i] = path

\* pathname.split('/') with the empty segments kept.
RECURSIVE SegmentsUnfiltered(_, _)
SegmentsUnfiltered(str, cur) ==
  IF Len(str) = 0 THEN <<cur>>
  ELSE IF Head(str) = "/" THEN <<cur>> \o SegmentsUnfiltered(Tail(str), <<>>)
  ELSE SegmentsUnfiltered(Tail(str), Append(cur, Head(str)))
\* pathname.split('/').filter(Boolean), cur being the segment read so far.
RECURSIVE Segments(_, _)
Segments(str, cur) ==
  IF Len(str) = 0 THEN (IF cur = <<>> THEN <<>> ELSE <<cur>>)
  ELSE IF Head(str) = "/"
    THEN (IF cur = <<>> THEN <<>> ELSE <<cur>>) \o Segments(Tail(str), <<>>)
  ELSE Segments(Tail(str), Append(cur, Head(str)))

\* Array.join('/')
RECURSIVE Join(_)
Join(parts) ==
  IF Len(parts) = 0 THEN <<>>
  ELSE IF Len(parts) = 1 THEN parts[1]
  ELSE parts[1] \o Slash \o Join(Tail(parts))

EndsWith(str, suffix) ==
  /\ Len(str) >= Len(suffix)
  /\ SubSeq(str, Len(str) - Len(suffix) + 1, Len(str)) = suffix
Includes(str, token) == \E i \in 1..Len(str) : str[i] = token
LowerWord(w) == IF w = "Index" THEN "index" ELSE IF w = "HTML" THEN "html" ELSE w
ToLowerCase(str) == [i \in 1..Len(str) |-> LowerWord(str[i])]
DotHtml == <<".", "html">>

\* handleLocalRequest: the file path asked for.
RequestedPath(pathParts) ==
  LET joined == Join(SubSeq(pathParts, 3, Len(pathParts)))
      filePath == IF joined = <<>> THEN IndexHtml ELSE joined
  IN IF EndsWith(filePath, Slash) THEN filePath \o IndexHtml ELSE filePath

\* allFiles.find(...): the first top-level index or .html file, if any.
IsRootPage(f) ==
  \/ f.path = IndexHtml
  \/ f.path = <<"Index", ".", "html">>
  \/ ~Includes(f.path, "/") /\ EndsWith(ToLowerCase(f.path), DotHtml)
RootPages(store, siteId) == {f \in getFilesForSite(store, siteId) : IsRootPage(f)}
FirstRootPage(store, siteId) ==
  CHOOSE f \in RootPages(store, siteId) :
    \A g \in RootPages(store, siteId) : KeyRank(f.path) <= KeyRank(g.path)

Found(f) ==
  [status |-> 200,
   contentType |-> IF f.contentType = "" THEN "application/octet-stream" ELSE f.contentType,
   body |-> f.content]
FoundHtml(f) == [status |-> 200, contentType |-> "text/html", body |-> f.content]
NotFound(contentType) == [status |-> 404, contentType |-> contentType, body |-> <<>>]

handleLocalRequest(store, url) ==
  LET pathParts == Segments(url, <<>>)
  IN IF Len(pathParts) < 2 \/ pathParts[1] # <<"local">> THEN NotFound("text/plain")
     ELSE
       LET siteId == pathParts[2]
           filePath == RequestedPath(pathParts)
           direct == HasFile(store, siteId, filePath)
           root == ~direct /\ filePath = IndexHtml /\ RootPages(store, siteId) # {}
       IN IF direct THEN Found(getFile(store, siteId, filePath))
          ELSE IF root THEN Found(FirstRootPage(store, siteId))
          ELSE IF ~Includes(filePath, ".") /\ HasFile(store, siteId, filePath \o DotHtml)
            THEN FoundHtml(getFile(store, siteId, filePath \o DotHtml))
          ELSE IF HasFile(store, siteId, filePath \o Slash \o IndexHtml)
            THEN FoundHtml(getFile(store, siteId, filePath \o Slash \o IndexHtml))
          ELSE NotFound("text/html")

\* The site the requests are for, and the URLs asked for.
ServeSite == <<"s1">>
LocalUrl(rest) == <<"/", "local", "/">> \o ServeSite \o rest
ServeUrls ==
  {LocalUrl(<<>>), LocalUrl(Slash), LocalUrl(Slash \o AppJs),
   LocalUrl(<<"/", "missing">>), LocalUrl(<<"/", "docs">>), LocalUrl(<<"/", "docs", "/">>),
   LocalUrl(<<"/", "about">>), LocalUrl(<<"/", "missing", "/">>),
   <<"/", "local", "/">>, <<"/", "local", "/", "s2", "/">>}

\* guessContentType, for the extensions of the model's paths.
guessContentType(path) ==
  IF EndsWith(path, <<".", "js">>) THEN "application/javascript"
  ELSE IF EndsWith(ToLowerCase(path), DotHtml) THEN "text/html"
  ELSE "application/octet-stream"
\* The bytes of the file the user uploads under a path.
UploadedBytes(path) == <<KeyRank(path), 0>>

\* handleAddSite's loop: one file of the dropped folder is stored.
upload(path) ==
  /\ ~HasFile(files["A"], ServeSite, path)
  /\ files' = [files EXCEPT !["A"] =
       storeFile(@, ServeSite, path, UploadedBytes(path), guessContentType(path))]
  /\ UNCHANGED <<catalogVars, pendingRequests, incomingTransfers, imports, tasks,
                 timers, clock, stored, streamed, sig, http, sessionVars>>

\* The fetch listener: a request under /local/ is answered from the store.
fetchLocal(url) ==
  /\ http' = [url |-> url, response |-> handleLocalRequest(files["A"], url),
              held |-> {f.path : f \in getFilesForSite(files["A"], ServeSite)}]
  /\ UNCHANGED <<catalogVars, transferVars, sig, sessionVars>>

NextServe ==
  \/ \E i \in 1..Len(ServePaths) : upload(ServePaths[i])
  \/ \E url \in ServeUrls : fetchLocal(url)

SpecServe == InitFresh /\ [][NextServe]_vars

\* The site held exactly index.html and assets/app.js when it was asked.
ExactlyIndexAndApp == http.held = {IndexHtml, AppJs}

\* C17. HTTP fallback: with exactly index.html and assets/app.js stored for a
\* site, /local/{id}/ is answered 200 with the bytes and content type of
\* index.html, /local/{id}/assets/app.js with 200 and the bytes of the script,
\* and /local/{id}/missing with 404.
HttpFallback ==
  ExactlyIndexAndApp =>
    LET index == getFile(files["A"], ServeSite, IndexHtml)
        app == getFile(files["A"], ServeSite, AppJs)
    IN /\ http.url = LocalUrl(Slash) =>
            http.response =
              [status |-> 200, contentType |-> index.contentType, body |-> index.content]
       /\ http.url = LocalUrl(Slash \o AppJs) =>
            http.response =
              [status |-> 200, contentType |-> app.contentType, body |-> app.content]
       /\ http.url = LocalUrl(<<"/", "missing">>) => http.response.status = 404

\* The root of such a site was asked for and answered with a status.
ServedRootOfIndexAndApp ==
  ExactlyIndexAndApp /\ http.url = LocalUrl(Slash) /\ http.response.status # 0

\* ======================================================= SignalingClient
maxReconnectAttempts == 10
baseDelay == 1000
maxDelay == 30000

Min(a, b) == IF a <= b THEN a ELSE b

\* The delay doubled at every attempt with no cap.
ReconnectDelayUncapped(attempt) == baseDelay * 2 ^ (attempt - 1)
\* handleDisconnect: the delay before reconnect attempt number attempt.
ReconnectDelay(attempt) == Min(baseDelay * 2 ^ (attempt - 1), maxDelay)

\* One more attempt allowed once maxReconnectAttempts were made.
CanRetryOnceMore(attempts) == attempts <= maxReconnectAttempts
\* handleDisconnect: whether another reconnect is scheduled.
CanRetry(attempts) == attempts < maxReconnectAttempts

\* handleDisconnect, run by the close event of the socket.
handleDisconnect(c) ==
  IF ~c.shouldReconnect
    THEN [c EXCEPT !.ws = "closed", !.joined = FALSE,
                   !.lastEvent = [type |-> "disconnected", attempt |-> 0]]
  ELSE IF CanRetry(c.reconnectAttempts)
    THEN [c EXCEPT !.ws = "closed", !.joined = FALSE,
                   !.reconnectAttempts = @ + 1,
                   !.timer = ReconnectDelay(c.reconnectAttempts + 1),
                   !.lastEvent = [type |-> "reconnecting",
                                  attempt |-> c.reconnectAttempts + 1]]
  ELSE [c EXCEPT !.ws = "closed", !.joined = FALSE,
                 !.lastEvent = [type |-> "disconnected", attempt |-> 0]]

\* connect(), called by the application: at first, or again once the client
\* has given up or was disconnected.
signalingConnect ==
  /\ sig.ws = "none" \/ (sig.ws = "closed" /\ sig.timer = 0)
  /\ sig' = [sig EXCEPT !.shouldReconnect = TRUE, !.ws = "connecting",
                        !.byTimer = FALSE, !.rejected = FALSE]
  /\ UNCHANGED <<catalogVars, transferVars, http, sessionVars>>

\* onOpen: the socket is open.
wsOpen ==
  /\ sig.ws = "connecting"
  /\ sig' = [sig EXCEPT
       !.ws = "open",
       !.reconnectAttempts = 0,
       !.retries = 0,
       !.lastEvent = IF ~sig.isInitialConnect
                       THEN [type |-> "reconnected", attempt |-> 0] ELSE @,
       !.isInitialConnect = FALSE,
       !.joined = TRUE]
  /\ UNCHANGED <<catalogVars, transferVars, http, sessionVars>>

\* The socket fails to open: onError, then the close event.
wsError ==
  /\ sig.ws = "connecting"
  /\ sig' = handleDisconnect([sig EXCEPT !.rejected = sig.isInitialConnect])
  /\ UNCHANGED <<catalogVars, transferVars, http, sessionVars>>

\* The open socket is lost: the close event.
wsClose ==
  /\ sig.ws = "open"
  /\ sig' = handleDisconnect(sig)
  /\ UNCHANGED <<catalogVars, transferVars, http, sessionVars>>

\* A callback that connects whatever shouldReconnect is.
TimerReconnectsAlways(c) == TRUE
\* The test of the setTimeout callback: if (this.shouldReconnect).
TimerReconnects(c) == c.shouldReconnect

\* handleDisconnect's setTimeout callback.
reconnectTimer ==
  /\ sig.timer # 0
  /\ sig' = IF TimerReconnects(sig)
              THEN [sig EXCEPT !.timer = 0, !.ws = "connecting", !.byTimer = TRUE,
                               !.retries = @ + 1]
              ELSE [sig EXCEPT !.timer = 0]
  /\ UNCHANGED <<catalogVars, transferVars, http, sessionVars>>

\* disconnect(), called by the application; the socket, if it was not closed
\* yet, has its close event.
signalingDisconnect ==
  /\ sig.ws # "none" /\ sig.shouldReconnect
  /\ sig' = IF sig.ws = "closed" THEN [sig EXCEPT !.shouldReconnect = FALSE]
            ELSE handleDisconnect([sig EXCEPT !.shouldReconnect = FALSE])
  /\ UNCHANGED <<catalogVars, transferVars, http, sessionVars>>

NextSignaling ==
  \/ signalingConnect
  \/ wsOpen
  \/ wsError
  \/ wsClose
  \/ reconnectTimer
  \/ signalingDisconnect

SpecSignaling == InitFresh /\ [][NextSignaling]_vars

\* C18. Reconnect cap: the reconnect timer makes at most 10 connects in a row
\* with no open in between, and once the socket of the 10th has closed,
\* disconnected was emitted and no further reconnect is scheduled.
ReconnectCap ==
  /\ sig.retries <= 10
  /\ sig.reconnectAttempts <= 10
  /\ (sig.ws = "closed" /\ sig.retries = 10) =>
       (sig.timer = 0 /\ sig.lastEvent.type = "disconnected")

\* A session that was open, lost, and then failed to reopen ten times.
ReconnectExhausted ==
  /\ ~sig.isInitialConnect /\ sig.shouldReconnect
  /\ sig.ws = "closed" /\ sig.retries = 10 /\ sig.byTimer

\* C19. Reconnect backoff: while the n-th reconnect is scheduled, its delay is
\* 1, 2, 4, 8, 16 s for n = 1..5 and 30 s for n = 6..10, and the event emitted
\* was reconnecting with attempt n.
BackoffSchedule ==
  sig.timer # 0 =>
    /\ sig.reconnectAttempts \in 1..10
    /\ sig.timer =
         <<1000, 2000, 4000, 8000, 16000, 30000, 30000, 30000, 30000, 30000>>
           [sig.reconnectAttempts]
    /\ sig.lastEvent = [type |-> "reconnecting", attempt |-> sig.reconnectAttempts]

\* The sixth reconnect in a row is scheduled, the first whose delay is capped.
SixthAttemptScheduled == sig.timer # 0 /\ sig.reconnectAttempts = 6

\* C20. Every successful re-connect emits reconnected: a socket made by the
\* reconnect timer that is open had reconnected emitted and join sent on it.
ReconnectedOnReopen ==
  (sig.ws = "open" /\ sig.byTimer) =>
    (sig.lastEvent.type = "reconnected" /\ sig.joined)

\* ============================================================ transfer.js
\* The site whose files are asked for, and the replica that asks.
SharedSite == ServeSite
Importer == "B"
listTimeout == 30000
fileTimeout == 60000

\* The bytes of a file of a given length.
Bytes(len) == [i \in 1..len |-> (37 * i + 200) % 256]
\* The file sets the owner may hold for the site: index.html of no byte or of
\* more than a chunk, or index.html of one full chunk with assets/app.js.
WithIndex(store, len) ==
  storeFile(store, SharedSite, IndexHtml, Bytes(len), guessContentType(IndexHtml))
OwnerStores ==
  {WithIndex({}, len) : len \in {0, MaxFileLen}} \cup
  {WithIndex(storeFile({}, SharedSite, AppJs, Bytes(2), guessContentType(AppJs)),
             CHUNK_SIZE)}

\* The keys of the two maps.
ListKey(siteId) == <<"list", siteId>>
FileRequestKey(siteId, path) == <<"file", siteId, path>>
\* The key of incomingTransfers were the path left out of it.
TransferKeyOfSite(peer, siteId, path) == <<peer, siteId>>
TransferKey(peer, siteId, path) == <<peer, siteId, path>>

HasEntry(map, key) == \E e \in map : e.key = key
EntryOf(map, key) == CHOOSE e \in map : e.key = key
Without(map, key) == {e \in map : e.key # key}

\* sendTransferMessage: ledger.sendCustom, which sends if the channel is open.
Custom(data) == [type |-> "custom", channel |-> "file-transfer", data |-> data]
\* What reaches the channel of the messages data that from sends.
sendTransferMessage(from, data) ==
  IF open[from] THEN [i \in 1..Len(data) |-> Custom(data[i])] ELSE <<>>
\* A handler of r has run, sending data; and a call of r sends data.
Consume(r, data) ==
  inbox' = [inbox EXCEPT ![r] = Tail(@),
                         ![Other(r)] = @ \o sendTransferMessage(r, data)]
Emit(r, data) ==
  inbox' = [inbox EXCEPT ![Other(r)] = @ \o sendTransferMessage(r, data)]
\* A handler of r has run on a message of any peer, leaving rest on r's
\* channel to the other replica and sending data on it.
Deliver(r, rest, data) ==
  inbox' = [inbox EXCEPT ![r] = rest,
                         ![Other(r)] = @ \o sendTransferMessage(r, data)]

\* The records of a site in the order getAll returns them.
RECURSIVE InKeyOrder(_)
InKeyOrder(fs) ==
  IF fs = {} THEN <<>>
  ELSE LET first == CHOOSE f \in fs : \A g \in fs : KeyRank(f.path) <= KeyRank(g.path)
       IN <<first>> \o InKeyOrder(fs \ {first})

\* sendFileList: path, size and content type of every file of the site.
fileList(store, siteId) ==
  LET fs == InKeyOrder(getFilesForSite(store, siteId))
  IN [i \in 1..Len(fs) |->
        [path |-> fs[i].path, size |-> fs[i].size, contentType |-> fs[i].contentType]]

\* The slice taken one byte longer than the chunk.
ChunkWithOneMore(bytes, offset) ==
  SubSeq(bytes, offset + 1, Min(offset + CHUNK_SIZE + 1, Len(bytes)))
\* sendFile: bytes.slice(offset, offset + CHUNK_SIZE)
Chunk(bytes, offset) == SubSeq(bytes, offset + 1, Min(offset + CHUNK_SIZE, Len(bytes)))

\* The message a channel end handles next, if it is a file-transfer one.
Handles(r, type) ==
  /\ open[r] /\ Len(inbox[r]) > 0
  /\ Head(inbox[r]).type = "custom"
  /\ Head(inbox[r]).data.type = type
Msg(r) == Head(inbox[r]).data
RemoveAt(seq, i) == SubSeq(seq, 1, i - 1) \o SubSeq(seq, i + 1, Len(seq))

\* The file the loop of importSiteFromPeer is at, were the list walked from
\* its end.
LastFileFirst(imp) == imp.files[Len(imp.files) - imp.completed]
\* The file the loop of importSiteFromPeer is at: for (const file of files).
NextFile(imp) == imp.files[imp.completed + 1]
\* onProgress(completedFiles, totalFiles, file.path)
onProgress(imp, file) ==
  [completed |-> imp.completed, total |-> Len(imp.files), path |-> file.path]
\* The await of the file over: completedFiles++ and onProgress.
Completed(imp) ==
  [imp EXCEPT !.completed = @ + 1,
              !.progress = Append(@, onProgress([imp EXCEPT !.completed = @ + 1],
                                                NextFile(imp)))]

\* importSiteFromPeer's loop from its top: the next file is asked for, or the
\* call returns.  imp is the call's state, pend and tms the maps it leaves.
RequestNext(call, imp, pend, tms) ==
  IF imp.completed < Len(imp.files)
    THEN LET key == FileRequestKey(SharedSite, NextFile(imp).path)
         IN [imp |-> [imp EXCEPT !.state = "file", !.due = clock + fileTimeout,
                                 !.progress = Append(@, onProgress(imp, NextFile(imp))),
                                 !.requested = Append(@, NextFile(imp).path)],
             pend |-> Without(pend, key) \cup {[key |-> key, call |-> call]},
             tms |-> Append(tms, [key |-> key, call |-> call,
                                  step |-> imp.completed + 1,
                                  due |-> clock + fileTimeout]),
             out |-> <<[type |-> "file-request", siteId |-> SharedSite,
                        path |-> NextFile(imp).path]>>]
    ELSE [imp |-> [imp EXCEPT !.state = "done"], pend |-> pend, tms |-> tms,
          out |-> <<>>]

\* importSiteFromPeer up to its first await: requestFileList.
importSite(r) ==
  /\ Len(imports[r]) < MaxImports
  /\ LET call == Len(imports[r]) + 1
         key == ListKey(SharedSite)
     IN /\ pendingRequests' = [pendingRequests EXCEPT ![r] =
              Without(@, key) \cup {[key |-> key, call |-> call]}]
        /\ timers' = [timers EXCEPT ![r] =
              Append(@, [key |-> key, call |-> call, step |-> 0,
                         due |-> clock + listTimeout])]
        /\ imports' = [imports EXCEPT ![r] =
              Append(@, [state |-> "list", files |-> <<>>, completed |-> 0,
                         due |-> clock + listTimeout, progress |-> <<>>,
                         requested |-> <<>>, resolvedBy |-> <<>>])]
  /\ Emit(r, <<[type |-> "file-list-request", siteId |-> SharedSite]>>)
  /\ UNCHANGED <<outsideTransfer, open, files, incomingTransfers, tasks, clock, stored,
                 streamed>>

\* handleTransferMessage, case file-list-request: sendFileList.
onFileListRequest(r) ==
  /\ Handles(r, "file-list-request")
  /\ Consume(r, <<[type |-> "file-list", siteId |-> Msg(r).siteId,
                   files |-> fileList(files[r], Msg(r).siteId)]>>)
  /\ UNCHANGED <<outsideTransfer, open, transferVars>>

\* handleTransferMessage, case file-list: the pending list request, if there
\* is one, is resolved and its importSiteFromPeer goes on.
caseFileList(r, fromPeerId, msg, rest) ==
  /\ LET key == ListKey(msg.siteId)
     IN IF HasEntry(pendingRequests[r], key)
          THEN LET call == EntryOf(pendingRequests[r], key).call
                   next == RequestNext(call,
                             [imports[r][call] EXCEPT !.files = msg.files,
                                !.resolvedBy = Append(@, fromPeerId)],
                             Without(pendingRequests[r], key), timers[r])
               IN /\ imports' = [imports EXCEPT ![r][call] = next.imp]
                  /\ pendingRequests' = [pendingRequests EXCEPT ![r] = next.pend]
                  /\ timers' = [timers EXCEPT ![r] = next.tms]
                  /\ Deliver(r, rest, next.out)
          ELSE /\ Deliver(r, rest, <<>>)
               /\ UNCHANGED <<imports, pendingRequests, timers>>
  /\ UNCHANGED <<besideTransfer, open, files, incomingTransfers, tasks, clock, stored,
                 streamed>>
onFileList(r) ==
  /\ Handles(r, "file-list")
  /\ caseFileList(r, Other(r), Msg(r), Tail(inbox[r]))
  /\ UNCHANGED stranger

\* handleTransferMessage, case file-request: sendFile up to its first await.
onFileRequest(r) ==
  /\ Handles(r, "file-request")
  /\ tasks' = [tasks EXCEPT ![r] =
       Append(@, [kind |-> "sendFile", phase |-> "read", siteId |-> Msg(r).siteId,
                  path |-> Msg(r).path, bytes |-> <<>>, offset |-> 0, out |-> <<>>])]
  /\ Consume(r, <<>>)
  /\ UNCHANGED <<outsideTransfer, open, files, pendingRequests, incomingTransfers, imports,
                 timers, clock, stored, streamed>>

\* sendFile from one await to the next: the site's files are read and
\* file-start sent; then, the buffer read or the 10 ms over, the next chunk is
\* sent, or file-end after the last.
sendFileStep(r, i) ==
  LET t == tasks[r][i]
  IN /\ t.kind = "sendFile"
     /\ IF t.phase = "read"
          THEN IF ~HasFile(files[r], t.siteId, t.path)
                 THEN /\ tasks' = [tasks EXCEPT ![r] = RemoveAt(@, i)]
                      /\ UNCHANGED <<inbox, streamed>>
                 ELSE LET file == getFile(files[r], t.siteId, t.path)
                          start == [type |-> "file-start", siteId |-> t.siteId,
                                    path |-> t.path, contentType |-> file.contentType,
                                    size |-> file.size]
                      IN /\ tasks' = [tasks EXCEPT ![r][i] =
                              [t EXCEPT !.phase = "buffer", !.bytes = file.content,
                                        !.out = <<start>>]]
                         /\ Emit(r, <<start>>)
                         /\ UNCHANGED streamed
        ELSE IF t.offset < Len(t.bytes)
          THEN LET chunk == [type |-> "file-chunk", siteId |-> t.siteId,
                             path |-> t.path, data |-> btoa(Chunk(t.bytes, t.offset))]
               IN /\ tasks' = [tasks EXCEPT ![r][i] =
                       [t EXCEPT !.phase = "yield", !.offset = @ + CHUNK_SIZE,
                                 !.out = Append(@, chunk)]]
                  /\ Emit(r, <<chunk>>)
                  /\ UNCHANGED streamed
        ELSE LET end == [type |-> "file-end", siteId |-> t.siteId, path |-> t.path]
             IN /\ tasks' = [tasks EXCEPT ![r] = RemoveAt(@, i)]
                /\ Emit(r, <<end>>)
                /\ streamed' = [streamed EXCEPT ![r] =
                     @ \cup {[path |-> t.path, bytes |-> t.bytes,
                              out |-> Append(t.out, end)]}]
     /\ UNCHANGED <<outsideTransfer, open, files, pendingRequests,
                    incomingTransfers, imports, timers, clock, stored>>

\* handleTransferMessage, case file-start: the record of the transfer is set,
\* whatever was under its key.
\* from, overlapped and beside are history: the sender, whether a transfer of
\* the same file from the same sender was under way at the file-start, and
\* the other transfers under way when its chunks came.
SameTransfer(e, fromPeerId, msg) ==
  e.from = fromPeerId /\ e.siteId = msg.siteId /\ e.path = msg.path
caseFileStart(r, fromPeerId, msg, rest) ==
  /\ LET key == TransferKey(fromPeerId, msg.siteId, msg.path)
     IN incomingTransfers' = [incomingTransfers EXCEPT ![r] =
          Without(@, key) \cup
            {[key |-> key, siteId |-> msg.siteId, path |-> msg.path,
              contentType |-> msg.contentType, totalSize |-> msg.size,
              receivedSize |-> 0, chunks |-> <<>>, from |-> fromPeerId,
              overlapped |-> \E e \in incomingTransfers[r] :
                               SameTransfer(e, fromPeerId, msg),
              beside |-> {}]}]
  /\ Deliver(r, rest, <<>>)
  /\ UNCHANGED <<besideTransfer, open, files, pendingRequests, imports, tasks,
                 timers, clock, stored, streamed>>
onFileStart(r) ==
  /\ Handles(r, "file-start")
  /\ caseFileStart(r, Other(r), Msg(r), Tail(inbox[r]))
  /\ UNCHANGED stranger

\* handleFileChunk: the decoded chunk is pushed on the transfer's record.
handleFileChunk(r, fromPeerId, msg, rest) ==
  /\ LET key == TransferKey(fromPeerId, msg.siteId, msg.path)
     IN IF HasEntry(incomingTransfers[r], key)
          THEN LET transfer == EntryOf(incomingTransfers[r], key)
                   bytes == atob(msg.data)
               IN incomingTransfers' = [incomingTransfers EXCEPT ![r] =
                    Without(@, key) \cup
                      {[transfer EXCEPT !.chunks = Append(@, bytes),
                                        !.receivedSize = @ + Len(bytes),
                                        !.beside = @ \cup
                                          {<<e.from, e.path>> :
                                             e \in {o \in incomingTransfers[r] :
                                               ~SameTransfer(o, fromPeerId, msg)}}]}]
          ELSE UNCHANGED incomingTransfers
  /\ Deliver(r, rest, <<>>)
  /\ UNCHANGED <<besideTransfer, open, files, pendingRequests, imports, tasks,
                 timers, clock, stored, streamed>>
onFileChunk(r) ==
  /\ Handles(r, "file-chunk")
  /\ handleFileChunk(r, Other(r), Msg(r), Tail(inbox[r]))
  /\ UNCHANGED stranger

\* new Blob(chunks): the chunks one after the other.
RECURSIVE Blob(_)
Blob(chunks) ==
  IF chunks = <<>> THEN <<>> ELSE Head(chunks) \o Blob(Tail(chunks))

\* finalizeIncomingFile up to its await: the blob is built of the record's
\* chunks and handed to storeFile.
finalizeIncomingFile(r, fromPeerId, msg, rest) ==
  /\ LET key == TransferKey(fromPeerId, msg.siteId, msg.path)
     IN IF HasEntry(incomingTransfers[r], key)
          THEN LET transfer == EntryOf(incomingTransfers[r], key)
               IN tasks' = [tasks EXCEPT ![r] =
                    Append(@, [kind |-> "finalize", key |-> key,
                               siteId |-> msg.siteId, path |-> msg.path,
                               blob |-> Blob(transfer.chunks),
                               contentType |-> transfer.contentType,
                               requested |-> HasEntry(pendingRequests[r],
                                 FileRequestKey(msg.siteId, msg.path)),
                               from |-> fromPeerId,
                               overlapped |-> transfer.overlapped,
                               beside |-> transfer.beside])]
          ELSE UNCHANGED tasks
  /\ Deliver(r, rest, <<>>)
  /\ UNCHANGED <<besideTransfer, open, files, pendingRequests, incomingTransfers,
                 imports, timers, clock, stored, streamed>>
onFileEnd(r) ==
  /\ Handles(r, "file-end")
  /\ finalizeIncomingFile(r, Other(r), Msg(r), Tail(inbox[r]))
  /\ UNCHANGED stranger

\* finalizeIncomingFile after its await: the file is stored, the record of the
\* transfer deleted, and the pending request of the file, if there is one,
\* resolved, on which its importSiteFromPeer goes on.
finalizeStep(r, i) ==
  LET t == tasks[r][i]
  IN /\ t.kind = "finalize"
     /\ files' = [files EXCEPT ![r] =
          storeFile(@, t.siteId, t.path, t.blob, t.contentType)]
     /\ incomingTransfers' = [incomingTransfers EXCEPT ![r] = Without(@, t.key)]
     /\ tasks' = [tasks EXCEPT ![r] = RemoveAt(@, i)]
     /\ LET fileKey == FileRequestKey(t.siteId, t.path)
        IN /\ stored' = [stored EXCEPT ![r] =
                @ \cup {[path |-> t.path, content |-> t.blob,
                         contentType |-> t.contentType,
                         requested |-> t.requested
                                         \/ HasEntry(pendingRequests[r], fileKey),
                         from |-> t.from, overlapped |-> t.overlapped,
                         beside |-> t.beside]}]
           /\ IF HasEntry(pendingRequests[r], fileKey)
                THEN LET call == EntryOf(pendingRequests[r], fileKey).call
                         next == RequestNext(call,
                                   [Completed(imports[r][call]) EXCEPT
                                      !.resolvedBy = Append(@, t.from)],
                                   Without(pendingRequests[r], fileKey), timers[r])
                     IN /\ imports' = [imports EXCEPT ![r][call] = next.imp]
                        /\ pendingRequests' = [pendingRequests EXCEPT ![r] = next.pend]
                        /\ timers' = [timers EXCEPT ![r] = next.tms]
                        /\ Emit(r, next.out)
                ELSE UNCHANGED <<imports, pendingRequests, timers, inbox>>
     /\ UNCHANGED <<outsideTransfer, open, clock, streamed>>

\* The timer the event loop runs next: the earliest due, the first set among
\* equals.
Due(r) == {i \in 1..Len(timers[r]) : timers[r][i].due <= clock}
NextTimer(r) ==
  CHOOSE i \in Due(r) :
    \A j \in Due(r) : \/ timers[r][i].due < timers[r][j].due
                      \/ timers[r][i].due = timers[r][j].due /\ i <= j

\* Whether call's importSiteFromPeer awaits the promise the timer t rejects.
Awaits(imp, t) ==
  \/ imp.state = "list" /\ t.step = 0
  \/ imp.state = "file" /\ t.step = imp.completed + 1

\* The setTimeout callbacks of requestFileList and importSiteFromPeer: if
\* the table has an entry under the timer's key the entry is deleted and the
\* promise the timer was set for rejected, which throws out of an
\* importSiteFromPeer that awaits it and is nothing to a settled promise.
timerFire(r) ==
  /\ Due(r) # {}
  /\ LET t == timers[r][NextTimer(r)]
     IN /\ timers' = [timers EXCEPT ![r] = RemoveAt(@, NextTimer(r))]
        /\ IF HasEntry(pendingRequests[r], t.key)
             THEN /\ pendingRequests' = [pendingRequests EXCEPT ![r] = Without(@, t.key)]
                  /\ imports' = [imports EXCEPT ![r][t.call] =
                       IF Awaits(@, t) THEN [@ EXCEPT !.state = "failed"] ELSE @]
             ELSE UNCHANGED <<pendingRequests, imports>>
  /\ UNCHANGED <<outsideTransfer, open, inbox, files, incomingTransfers, tasks,
                 clock, stored, streamed>>

\* Time passes while a timer is set and none is due.
Tick ==
  /\ clock < MaxClock
  /\ \E r \in Replicas : timers[r] # <<>>
  /\ \A r \in Replicas : Due(r) = {}
  /\ clock' = clock + TickMs
  /\ UNCHANGED <<outsideTransfer, open, inbox, files, pendingRequests,
                 incomingTransfers, imports, tasks, timers, stored, streamed>>

\* The peer leaves: the data channel closes at both ends (dc.onclose,
\* removePeer), what was in flight is lost and sendToPeer sends no more.
\* transfer.js registers nothing for it.
peerLeave ==
  /\ \A r \in Replicas : open[r]
  /\ open' = [r \in Replicas |-> FALSE]
  /\ inbox' = [r \in Replicas |-> <<>>]
  /\ UNCHANGED <<outsideTransfer, transferVars>>

\* Two connected nodes with empty catalogs, their channel open and the first
\* sync over; A holds the site's files, B none.
InitTransfer ==
  /\ db = [r \in Replicas |-> EmptyStore]
  /\ now = 0
  /\ minted = [i \in Ids |-> NoOne]
  /\ dbVersion = [r \in Replicas |-> refreshVersion(db[r])]
  /\ applying = [r \in Replicas |-> IdleApply]
  /\ pending = [r \in Replicas |-> IdleCall]
  /\ connected = [r \in Replicas |-> TRUE]
  /\ lastBroadcastVersion = [r \in Replicas |-> 0]
  /\ open = [r \in Replicas |-> TRUE]
  /\ lastSyncedVersion = [r \in Replicas |-> 0]
  /\ inbox = [r \in Replicas |-> <<>>]
  /\ blc = [r \in Replicas |-> <<>>]
  /\ log = <<>>
  /\ atOpen = [r \in Replicas |-> {}]
  /\ syncDone = [r \in Replicas |-> TRUE]
  /\ \E store \in OwnerStores :
       files = [r \in Replicas |-> IF r = Importer THEN {} ELSE store]
  /\ pendingRequests = [r \in Replicas |-> {}]
  /\ incomingTransfers = [r \in Replicas |-> {}]
  /\ imports = [r \in Replicas |-> <<>>]
  /\ tasks = [r \in Replicas |-> <<>>]
  /\ timers = [r \in Replicas |-> <<>>]
  /\ clock = 0
  /\ stored = [r \in Replicas |-> {}]
  /\ streamed = [r \in Replicas |-> {}]
  /\ NoSignaling
  /\ NoRequest
  /\ NoSession

NextTransfer ==
  \/ importSite(Importer)
  \/ \E r \in Replicas : onFileListRequest(r)
  \/ \E r \in Replicas : onFileList(r)
  \/ \E r \in Replicas : onFileRequest(r)
  \/ \E r \in Replicas : \E i \in 1..Len(tasks[r]) : sendFileStep(r, i)
  \/ \E r \in Replicas : onFileStart(r)
  \/ \E r \in Replicas : onFileChunk(r)
  \/ \E r \in Replicas : onFileEnd(r)
  \/ \E r \in Replicas : \E i \in 1..Len(tasks[r]) : finalizeStep(r, i)
  \/ \E r \in Replicas : timerFire(r)
  \/ Tick
  \/ peerLeave

SpecTransfer == InitTransfer /\ [][NextTransfer]_vars

\* The decoded payloads of the file-chunk messages among out, in send order.
RECURSIVE Payloads(_)
Payloads(out) ==
  IF out = <<>> THEN <<>>
  ELSE IF Head(out).type = "file-chunk"
    THEN <<atob(Head(out).data)>> \o Payloads(Tail(out))
  ELSE Payloads(Tail(out))

\* out is file-start, then chunks only, then file-end if the stream is over.
InOrder(out, over) ==
  /\ Len(out) >= (IF over THEN 2 ELSE 1)
  /\ out[1].type = "file-start"
  /\ \A k \in 2..Len(out) :
       out[k].type = (IF over /\ k = Len(out) THEN "file-end" ELSE "file-chunk")

Source(r, path) == getFile(files[r], SharedSite, path).content

\* C12: of every file a node streams the messages go out in the order
\* file-start, file-chunk zero or more times, file-end; no chunk decodes to
\* more than CHUNK_SIZE bytes; and the decoded chunks, one after the other in
\* send order, are the bytes of the source file (of a stream under way: the
\* bytes up to its offset).
ChunkFraming ==
  \A r \in Replicas :
    /\ \A st \in streamed[r] :
         /\ InOrder(st.out, TRUE)
         /\ \A k \in 1..Len(Payloads(st.out)) : Len(Payloads(st.out)[k]) <= CHUNK_SIZE
         /\ Blob(Payloads(st.out)) = Source(r, st.path)
    /\ \A i \in 1..Len(tasks[r]) :
         (tasks[r][i].kind = "sendFile" /\ tasks[r][i].phase # "read") =>
           LET t == tasks[r][i]
           IN /\ InOrder(t.out, FALSE)
              /\ \A k \in 1..Len(Payloads(t.out)) : Len(Payloads(t.out)[k]) <= CHUNK_SIZE
              /\ Blob(Payloads(t.out)) =
                   SubSeq(Source(r, t.path), 1, Min(t.offset, Len(Source(r, t.path))))

\* A file longer than one chunk was streamed to its end, in two chunks or more.
StreamedLongFile ==
  \E st \in streamed["A"] :
    /\ Len(Source("A", st.path)) > CHUNK_SIZE
    /\ Len(Payloads(st.out)) >= 2

\* C16: whatever requests for a file overlap, every blob the importer stores
\* for a path has the bytes of the owner's file of that path.
RedundantRequestsHarmless ==
  \A b \in stored[Importer] : b.content = Source(Other(Importer), b.path)

\* C11: when importSiteFromPeer has returned, the importer's store holds, for
\* every file of the list the owner sent, a blob under the site and the path
\* with the bytes and the content type of the owner's file.
TransferRoundTrip ==
  \A c \in 1..Len(imports[Importer]) :
    imports[Importer][c].state = "done" =>
      \A k \in 1..Len(imports[Importer][c].files) :
        LET path == imports[Importer][c].files[k].path
        IN /\ HasFile(files[Importer], SharedSite, path)
           /\ getFile(files[Importer], SharedSite, path).content =
                Source(Other(Importer), path)
           /\ getFile(files[Importer], SharedSite, path).contentType =
                getFile(files[Other(Importer)], SharedSite, path).contentType

\* C15: the file transfer writes a blob to the store only of a file whose
\* request is pending at the node, when file-end arrives or when the blob is
\* put.
OnlyOnRequest ==
  \A r \in Replicas : \A b \in stored[r] : b.requested

\* C14: when the channel to the peer closes, no request to the peer stays
\* pending and no record of a transfer from the peer stays.
PeerDepartureCancels ==
  [][\A r \in Replicas :
       (open[r] /\ ~open'[r]) =>
          /\ pendingRequests'[r] = {}
          /\ incomingTransfers'[r] = {}]_vars

\* Whether the timer of call's pending promise is still set.
TimerSet(r, c) ==
  \E i \in 1..Len(timers[r]) :
    timers[r][i].call = c /\ Awaits(imports[r][c], timers[r][i])

\* C13: an importSiteFromPeer that awaits the file list or a file does so no
\* longer than to the deadline of the request, 30 s and 60 s after it was
\* made, when its timer rejects it; and a rejected importSiteFromPeer has no
\* entry in the table of pending requests.
RequestTimeouts ==
  \A r \in Replicas : \A c \in 1..Len(imports[r]) :
    /\ imports[r][c].state \in {"list", "file"} =>
         \/ clock < imports[r][c].due
         \/ TimerSet(r, c)
    /\ imports[r][c].state = "failed" =>
         \A e \in pendingRequests[r] : e.call # c

\* ================================================= the catalog's calls alone
\* The call the step made, if it made one.
Called(op, r, id) ==
  /\ Len(log') = Len(log) + 1
  /\ log'[Len(log')].op = op /\ log'[Len(log')].by = r /\ log'[Len(log')].id = id

\* C25: updateSite of an id with no row in the catalog returns null, and the
\* store is as it was: no row, no change record, no version, no broadcast.
UpdateMissingReturnsNull ==
  [][\A r \in Replicas, id \in Ids :
       (id \notin db[r].live /\ (Called("update", r, id) \/ Called("update-notfound", r, id))) =>
          /\ Called("update-notfound", r, id)
          /\ db' = db /\ dbVersion' = dbVersion /\ blc' = blc
          /\ getChanges(db'[r], 0) = getChanges(db[r], 0)]_vars

\* updateSite was called for an id whose row had been removed.
UpdatedRemovedSite ==
  \E i \in 1..Len(log), j \in 1..Len(log) :
    /\ i < j
    /\ log[i].op = "remove" /\ log[j].op = "update-notfound"
    /\ log[i].by = log[j].by /\ log[i].id = log[j].id
    /\ minted[log[i].id] # NoOne

\* C26: removeSite leaves no row of the id; of an id with no row it leaves
\* the store as it was, so that a second removeSite changes nothing.
RemoveIdempotent ==
  [][\A r \in Replicas, id \in Ids :
       Called("remove", r, id) =>
          /\ id \notin db'[r].live
          /\ id \notin db[r].live => db'[r] = db[r]
          /\ LocalDelete(db'[r], SiteIdBytes(r), id) = db'[r]]_vars

\* A site was added and then removed twice by the replica.
RemovedTwice ==
  \E i \in 1..Len(log), j \in 1..Len(log) :
    /\ i < j
    /\ log[i].op = "remove" /\ log[j].op = "remove"
    /\ log[i].by = log[j].by /\ log[i].id = log[j].id
    /\ minted[log[i].id] = log[i].by

\* ==================================================== the first connect
\* C21: when the socket of the caller's first connect() has failed and the
\* call was rejected, the client is not reconnecting: no reconnecting event
\* was emitted and no reconnect timer is set.
InitialFailureSurfaced ==
  (sig.rejected /\ sig.isInitialConnect /\ ~sig.byTimer /\ sig.ws = "closed") =>
     /\ sig.timer = 0
     /\ sig.lastEvent.type # "reconnecting"

\* ============================================= batches that fail to apply
\* The step is r's handler of a sync-response or changes message.
HandledChanges(r) == CanHandleChanges(r) /\ inbox'[r] = Tail(inbox[r])

\* C27: when applying the batch of a sync-response or changes message
\* throws, the handler leaves the peer's lastSyncedVersion as it was.
FailedApplyKeepsSynced ==
  [][\A r \in Replicas :
       (HandledChanges(r) /\ ApplyBatch(db[r], Head(inbox[r]).changes).threw) =>
          lastSyncedVersion'[r] = lastSyncedVersion[r]]_vars

\* A batch of the peer failed after the first sync, and its version is not
\* the one recorded.
FailedInboundApply ==
  \E r \in Replicas :
    /\ applying[r].failed /\ syncDone[r]
    /\ Len(inbox[r]) = 0
    /\ minted # [i \in Ids |-> NoOne]

\* ========================================================= Ledger.connect
\* What a url or a token can be: not given, the empty string, or a string.
Args == {Undefined, "", "given"}
\* A value taken for present unless it is undefined.
TruthyButEmpty(v) == v # Undefined
\* JavaScript's truthiness of such a value, and a || b.
Truthy(v) == v # Undefined /\ v # ""
Or(a, b) == IF Truthy(a) THEN a ELSE b

\* new Ledger(config)
construct(signalingUrl, token) ==
  /\ ledger = NoLedger
  /\ ledger' = [ledger EXCEPT !.config = [signalingUrl |-> signalingUrl, token |-> token]]
  /\ UNCHANGED <<catalogVars, transferVars, sig, http, rtc, stranger, pair>>

\* init(): the database is opened.
ledgerInit ==
  /\ ~ledger.initialized
  /\ ledger' = [ledger EXCEPT !.initialized = TRUE]
  /\ UNCHANGED <<catalogVars, transferVars, sig, http, rtc, stranger, pair>>

\* connect(signalingUrl, token) up to its await: ensureInitialized, the two
\* checks, and the session manager made.
ledgerConnect(signalingUrl, token) ==
  /\ ledger.calls < MaxConnects
  /\ ledger.call.result # "pending"
  /\ LET url == Or(signalingUrl, ledger.config.signalingUrl)
         roomToken == Or(token, ledger.config.token)
         called == [ledger EXCEPT !.calls = @ + 1,
                                  !.call = [url |-> signalingUrl, token |-> token,
                                            result |-> "pending"]]
     IN ledger' =
          IF ~ledger.initialized
            THEN [called EXCEPT !.call.result = "NotInitialized"]
          ELSE IF ~Truthy(url) \/ ~Truthy(roomToken)
            THEN [called EXCEPT !.call.result = "ConfigurationMissing"]
          ELSE [called EXCEPT !.webrtc = TRUE]
  /\ UNCHANGED <<catalogVars, transferVars, sig, http, rtc, stranger, pair>>

\* connect after its await: webrtc.connect resolved, or it rejected.
connectResolved ==
  /\ ledger.call.result = "pending"
  /\ ledger' = [ledger EXCEPT !.connected = TRUE, !.call.result = "connected"]
  /\ UNCHANGED <<catalogVars, transferVars, sig, http, rtc, stranger, pair>>
connectRejected ==
  /\ ledger.call.result = "pending"
  /\ ledger' = [ledger EXCEPT !.call.result = "ConnectFailed"]
  /\ UNCHANGED <<catalogVars, transferVars, sig, http, rtc, stranger, pair>>

\* disconnect(), and close(), which disconnects and closes the database.
ledgerDisconnect ==
  /\ ledger.webrtc \/ ledger.connected
  /\ ledger' = [ledger EXCEPT !.webrtc = FALSE, !.connected = FALSE]
  /\ UNCHANGED <<catalogVars, transferVars, sig, http, rtc, stranger, pair>>
ledgerClose ==
  /\ ledger.initialized
  /\ ledger' = [ledger EXCEPT !.webrtc = FALSE, !.connected = FALSE,
                              !.initialized = FALSE]
  /\ UNCHANGED <<catalogVars, transferVars, sig, http, rtc, stranger, pair>>

NextConnect ==
  \/ \E signalingUrl \in Args, token \in Args : construct(signalingUrl, token)
  \/ ledgerInit
  \/ \E signalingUrl \in Args, token \in Args : ledgerConnect(signalingUrl, token)
  \/ connectResolved
  \/ connectRejected
  \/ ledgerDisconnect
  \/ ledgerClose

SpecConnect == InitFresh /\ [][NextConnect]_vars

\* The step is a call of connect with these arguments.
ConnectCalled(signalingUrl, token) ==
  /\ ledger'.calls = ledger.calls + 1
  /\ ledger'.call.url = signalingUrl /\ ledger'.call.token = token
\* Neither the call nor the configuration has the value.
Missing(arg, configured) == arg \in {Undefined, ""} /\ configured \in {Undefined, ""}

\* C24: connect before init has completed fails with NotInitialized; connect
\* with no signaling url or no token, in the call or the configuration, fails
\* with ConfigurationMissing; and neither makes a session manager or changes
\* whether the engine is connected.
ConnectPreconditions ==
  [][\A signalingUrl \in Args, token \in Args :
       ConnectCalled(signalingUrl, token) =>
         /\ ~ledger.initialized =>
              /\ ledger'.call.result = "NotInitialized"
              /\ ledger'.webrtc = ledger.webrtc /\ ledger'.connected = ledger.connected
         /\ (/\ ledger.initialized
             /\ \/ Missing(signalingUrl, ledger.config.signalingUrl)
                \/ Missing(token, ledger.config.token)) =>
              /\ ledger'.call.result = "ConfigurationMissing"
              /\ ledger'.webrtc = ledger.webrtc /\ ledger'.connected = ledger.connected]_vars

\* The second connect of an initialised Ledger that has no session manager
\* was refused: an empty url in the call and no url configured.
ConnectRefusedTwice ==
  /\ ledger.calls = 2 /\ ledger.initialized
  /\ ledger.call.result = "ConfigurationMissing"
  /\ ledger.call.url = "" /\ ledger.config.signalingUrl = Undefined
  /\ ~ledger.webrtc /\ ~ledger.connected

\* ========================================================== WebRTCManager
PeerIds == {"P", "Q"}
InTable(id) == \E i \in 1..Len(rtc.peers) : rtc.peers[i].id = id
\* peers.delete(peerId)
Deleted(id) == SelectSeq(rtc.peers, LAMBDA peer : peer.id # id)

\* createPeerConnection, for a member of the room or an incoming offer.
createPeerConnection(id) ==
  /\ ~InTable(id)
  /\ rtc' = [rtc EXCEPT
       !.peers = Append(@, [id |-> id, dc |-> "connecting", pc |-> "new",
                            ready |-> FALSE, lastSyncedVersion |-> 0]),
       !.left = @ \ {id}]
  /\ UNCHANGED <<catalogVars, transferVars, sig, http, ledger, stranger, pair>>

\* dc.onopen
dcOpen(i) ==
  /\ rtc.peers[i].dc = "connecting"
  /\ rtc' = [rtc EXCEPT !.peers[i].dc = "open", !.peers[i].ready = TRUE]
  /\ UNCHANGED <<catalogVars, transferVars, sig, http, ledger, stranger, pair>>

\* dc.onclose: the channel was closed by the other end.
dcClose(i) ==
  /\ rtc.peers[i].dc # "closed"
  /\ rtc' = [rtc EXCEPT !.peers[i].dc = "closed", !.peers[i].ready = FALSE]
  /\ UNCHANGED <<catalogVars, transferVars, sig, http, ledger, stranger, pair>>

\* removePeer and onPeerLeave, as the peer-leave handler and
\* pc.onconnectionstatechange call them.
removeAndLeave(id) ==
  [rtc EXCEPT !.peers = Deleted(id), !.left = @ \cup {id}]

\* pc.onconnectionstatechange
connectionStateChange(i, state) ==
  /\ rtc.peers[i].pc # state
  /\ rtc' = IF state \in {"failed", "closed"}
              THEN removeAndLeave(rtc.peers[i].id)
              ELSE [rtc EXCEPT !.peers[i].pc = state]
  /\ UNCHANGED <<catalogVars, transferVars, sig, http, ledger, stranger, pair>>

\* The signaling server's peer-leave, of a peer in the table or not.
signalingPeerLeave(id) ==
  /\ id \notin rtc.left
  /\ rtc' = removeAndLeave(id)
  /\ UNCHANGED <<catalogVars, transferVars, sig, http, ledger, stranger, pair>>

\* broadcastChanges: the loop over the Map; dc.send on a channel of throwing
\* throws, and the exception leaves the loop.
RECURSIVE Broadcast(_, _, _)
Broadcast(peers, version, throwing) ==
  IF peers = <<>> THEN [peers |-> <<>>, sent |-> <<>>]
  ELSE LET peer == Head(peers)
       IN IF peer.dc # "open"
            THEN LET rest == Broadcast(Tail(peers), version, throwing)
                 IN [peers |-> <<peer>> \o rest.peers, sent |-> rest.sent]
          ELSE IF peer.id \in throwing
            THEN [peers |-> peers, sent |-> <<>>]
          ELSE LET rest == Broadcast(Tail(peers), version, throwing)
               IN [peers |-> <<[peer EXCEPT !.lastSyncedVersion = version]>> \o rest.peers,
                   sent |-> <<peer.id>> \o rest.sent]

\* The ids of the peers whose channel is open and whose send does not throw.
Takers(peers, throwing) ==
  LET open_ == SelectSeq(peers, LAMBDA peer : peer.dc = "open" /\ peer.id \notin throwing)
  IN [i \in 1..Len(open_) |-> open_[i].id]

broadcastChanges(throwing) ==
  /\ rtc.broadcasts < MaxBroadcasts
  /\ \A id \in throwing : \E i \in 1..Len(rtc.peers) :
        rtc.peers[i].id = id /\ rtc.peers[i].dc = "open"
  /\ LET version == rtc.broadcasts + 1
         done == Broadcast(rtc.peers, version, throwing)
     IN rtc' = [rtc EXCEPT !.peers = done.peers, !.sent = done.sent,
                           !.takers = Takers(rtc.peers, throwing),
                           !.failed = throwing, !.broadcasts = version]
  /\ UNCHANGED <<catalogVars, transferVars, sig, http, ledger, stranger, pair>>

NextPeers ==
  \/ \E id \in PeerIds : createPeerConnection(id)
  \/ \E i \in 1..Len(rtc.peers) : dcOpen(i)
  \/ \E i \in 1..Len(rtc.peers) : dcClose(i)
  \/ \E i \in 1..Len(rtc.peers) :
       \E state \in {"connected", "disconnected", "failed", "closed"} :
          connectionStateChange(i, state)
  \/ \E id \in PeerIds : signalingPeerLeave(id)
  \/ \E throwing \in SUBSET PeerIds : broadcastChanges(throwing)

SpecPeers == InitFresh /\ [][NextPeers]_vars

\* C22: a session whose data channel has closed, or whose connection has
\* failed or closed, is torn down: none such is in the peer table.
PeerTeardown ==
  \A i \in 1..Len(rtc.peers) :
    /\ rtc.peers[i].dc # "closed"
    /\ rtc.peers[i].pc \notin {"failed", "closed"}

\* C23: a broadcast whose send throws on one channel still reaches every
\* other peer whose channel is open, in insertion order, and the version it
\* records for a peer whose send threw is not that of the batch.
BroadcastSurvivesSendFailure ==
  /\ rtc.sent = rtc.takers
  /\ \A i \in 1..Len(rtc.peers) :
       rtc.peers[i].id \in rtc.failed =>
         rtc.peers[i].lastSyncedVersion < rtc.broadcasts

\* ======================================================= import progress
\* C29: of every importSiteFromPeer of a site of N files, onProgress is
\* called with (j - 1, N, path j) before file j is requested and with
\* (j, N, path j) when it has arrived, so that the count never decreases; the
\* files are requested in the order of the list, the next only when the one
\* before has arrived; the last call of a call that returned is (N, N, last
\* path); and a call that was rejected requests nothing more.
ImportProgress ==
  \A c \in 1..Len(imports[Importer]) :
    LET imp == imports[Importer][c]
        N == Len(imp.files)
    IN /\ Len(imp.requested) <= N
       /\ \A j \in 1..Len(imp.requested) : imp.requested[j] = imp.files[j].path
       /\ Len(imp.requested) = imp.completed + (IF imp.state = "file" THEN 1 ELSE 0)
            \/ (imp.state = "failed" /\ Len(imp.requested) = imp.completed + 1)
       /\ Len(imp.progress) = Len(imp.requested) + imp.completed
       /\ \A k \in 1..Len(imp.progress) :
            imp.progress[k] =
              [completed |-> k \div 2, total |-> N, path |-> imp.files[(k + 1) \div 2].path]
       /\ imp.state = "done" => imp.completed = N

\* An import of two files has returned after all four calls of onProgress.
ImportedTwoFiles ==
  \E c \in 1..Len(imports[Importer]) :
    /\ imports[Importer][c].state = "done"
    /\ Len(imports[Importer][c].files) = 2
    /\ Len(imports[Importer][c].progress) = 4

\* ========================================================= a third peer
\* A third peer has a data channel to the importer too and holds the site
\* with an index.html of its own; the importer handles, when they come, the
\* file-list of the peer's sendFileList and the file-start, file-chunk and
\* file-end of its sendFile of index.html.
Stranger == "Q"
StrangerStore ==
  storeFile({}, SharedSite, IndexHtml, <<7, 7>>, guessContentType(IndexHtml))
StrangerFile == getFile(StrangerStore, SharedSite, IndexHtml)

strangerFileList ==
  /\ ~stranger.list
  /\ stranger' = [stranger EXCEPT !.list = TRUE]
  /\ caseFileList(Importer, Stranger,
       [type |-> "file-list", siteId |-> SharedSite,
        files |-> fileList(StrangerStore, SharedSite)],
       inbox[Importer])

strangerFileStart ==
  /\ stranger.stream = 0
  /\ stranger' = [stranger EXCEPT !.stream = 1]
  /\ caseFileStart(Importer, Stranger,
       [type |-> "file-start", siteId |-> SharedSite, path |-> IndexHtml,
        contentType |-> StrangerFile.contentType, size |-> StrangerFile.size],
       inbox[Importer])

strangerFileChunk ==
  /\ stranger.stream = 1
  /\ stranger' = [stranger EXCEPT !.stream = 2]
  /\ handleFileChunk(Importer, Stranger,
       [type |-> "file-chunk", siteId |-> SharedSite, path |-> IndexHtml,
        data |-> btoa(Chunk(StrangerFile.content, 0))],
       inbox[Importer])

strangerFileEnd ==
  /\ stranger.stream = 2
  /\ stranger' = [stranger EXCEPT !.stream = 3]
  /\ finalizeIncomingFile(Importer, Stranger,
       [type |-> "file-end", siteId |-> SharedSite, path |-> IndexHtml],
       inbox[Importer])

NextStranger ==
  \/ importSite(Importer)
  \/ \E r \in Replicas : onFileListRequest(r)
  \/ \E r \in Replicas : onFileList(r)
  \/ \E r \in Replicas : onFileRequest(r)
  \/ \E r \in Replicas : \E i \in 1..Len(tasks[r]) : sendFileStep(r, i)
  \/ \E r \in Replicas : onFileStart(r)
  \/ \E r \in Replicas : onFileChunk(r)
  \/ \E r \in Replicas : onFileEnd(r)
  \/ \E r \in Replicas : \E i \in 1..Len(tasks[r]) : finalizeStep(r, i)
  \/ strangerFileList
  \/ strangerFileStart
  \/ strangerFileChunk
  \/ strangerFileEnd

SpecStranger == InitTransfer /\ [][NextStranger]_vars

\* C28: a pending request of an importSiteFromPeer is resolved by a message
\* of the peer the call asks, never by one of another peer.
PendingPerPeer ==
  \A c \in 1..Len(imports[Importer]) :
    \A k \in 1..Len(imports[Importer][c].resolvedBy) :
      imports[Importer][c].resolvedBy[k] = Other(Importer)

\* ================================================= concurrent transfers
\* The bytes of the file a peer streams.
SourceOf(peer, path) ==
  IF peer = Stranger THEN StrangerFile.content ELSE Source(peer, path)

\* C30: transfers of different paths from one peer, or of one path from
\* different peers, whose messages arrive interleaved do not interfere: every
\* blob stored from a transfer that no other of the same peer and path
\* overlapped is the bytes of its own source file.
DisjointTransfersIntact ==
  \A s \in stored[Importer] :
    ~s.overlapped => s.content = SourceOf(s.from, s.path)

\* Two files have been stored intact, of different paths from the owner and
\* the chunks of each having come while the other's transfer was under way,
\* and so has the third peer's file, its chunk having come while a transfer
\* of the same path from the owner was under way.
InterleavedTransfersStored ==
  /\ \E s, t \in stored[Importer] :
       /\ s.from = Other(Importer) /\ t.from = Other(Importer)
       /\ s.path # t.path
       /\ <<t.from, t.path>> \in s.beside /\ <<s.from, s.path>> \in t.beside
       /\ ~s.overlapped /\ ~t.overlapped
       /\ s.content # <<>> /\ t.content # <<>>
  /\ \E q \in stored[Importer] :
       /\ q.from = Stranger /\ ~q.overlapped
       /\ <<Other(Importer), q.path>> \in q.beside
       /\ q.content = StrangerFile.content

\* ==================================================== directory requests
MissingDir == LocalUrl(<<"/", "missing", "/">>)
MissingIndex == <<"missing", "/", "index", ".", "html">>
MissingHtml == <<"missing", ".", "html">>

\* C31: a request /local/{siteId}/{dir}/ is answered with dir/index.html
\* when both dir/index.html and dir.html are stored.
DirectoryIndexFirst ==
  (http.url = MissingDir /\ {MissingIndex, MissingHtml} \subseteq http.held) =>
    http.response.body = getFile(files["A"], ServeSite, MissingIndex).content

\* ============================================ incoming-transfer lifecycle
\* C32: an incoming-transfer record lives from its file-start to its
\* file-end, and when the request of its file times out the record and the
\* chunks it holds are removed: the step that rejects the file request of an
\* importSiteFromPeer leaves no record of that file.
TimeoutDiscardsTransfer ==
  [][\A c \in 1..Len(imports[Importer]) :
       (imports[Importer][c].state = "file" /\ imports'[Importer][c].state = "failed") =>
         ~\E e \in incomingTransfers'[Importer] :
            e.siteId = SharedSite /\ e.path = NextFile(imports[Importer][c]).path]_vars

\* ================================================ signaling has given up
\* Ledger.connect's onDisconnected: the signaling client has emitted
\* disconnected after its last reconnect attempt; connected is cleared and
\* nothing else is: the peer sessions and their data channels are as before.
onDisconnected(r) ==
  /\ connected[r]
  /\ connected' = [connected EXCEPT ![r] = FALSE]
  /\ UNCHANGED <<dbVars, lastBroadcastVersion, open, lastSyncedVersion, inbox, blc,
                 histVars>>

\* Two replicas in one room, the signaling of either of which may give up;
\* the caller does not connect again afterwards.
NextGiveUp ==
  \/ Written < MaxLiveWrites /\ CatalogCall /\ UNCHANGED otherVars
  \/ \E r \in Replicas : ~open[r] /\ connect(r) /\ UNCHANGED otherVars
  \/ \E r \in Replicas : onopen(r) /\ UNCHANGED otherVars
  \/ \E r \in Replicas : handleSyncRequest(r) /\ UNCHANGED otherVars
  \/ \E r \in Replicas : handleChanges(r) /\ UNCHANGED otherVars
  \/ \E r \in Replicas : broadcastLocalChanges(r) /\ UNCHANGED otherVars
  \/ \E r \in Replicas : onDisconnected(r) /\ UNCHANGED otherVars

SpecGiveUp == InitFresh /\ [][NextGiveUp]_vars

\* disconnected was emitted at r and connect not called since.
GaveUp(r) == ~connected[r] /\ open[r]
\* The step sends a changes message of r.
SentChanges(r) ==
  /\ Len(inbox'[Other(r)]) = Len(inbox[Other(r)]) + 1
  /\ Last(inbox'[Other(r)]).type = "changes"
  /\ SubSeq(inbox'[Other(r)], 1, Len(inbox[Other(r)])) = inbox[Other(r)]

\* C33: once disconnected has been emitted, and until connect is called
\* again, the engine sends no changes message and applies no batch of a peer.
SyncCeasesAfterDisconnected ==
  [][\A r \in Replicas :
       GaveUp(r) =>
         /\ ~SentChanges(r)
         /\ ~(HandledChanges(r) /\ Len(Head(inbox[r]).changes) > 0)]_vars

\* ================================================== sessions of a pair
\* The session each of two peers of a room holds for the other.  A session
\* is the entry of the peers Map: its RTCPeerConnection's local and remote
\* description, and ready.  made counts the RTCPeerConnections created.
SendSignal(to, msg) == [pair.net EXCEPT ![to] = Append(@, msg)]

\* createPeerConnection(peerId, initiator): nothing if the Map has the peer;
\* otherwise the entry is set, and the initiator makes the data channel, sets
\* its offer and sends it.
created(sess, initiator) ==
  IF sess.has THEN sess
  ELSE [sess EXCEPT !.has = TRUE, !.initiator = initiator, !.made = @ + 1,
                    !.local = IF initiator THEN "offer" ELSE "none"]

\* The peers event of the signaling server names the other peer.
peersRoster(r) ==
  /\ ~pair.roster[r]
  /\ pair' = [pair EXCEPT
       !.roster[r] = TRUE,
       !.sess[r] = created(@, TRUE),
       !.net = IF pair.sess[r].has THEN @
               ELSE SendSignal(Other(r), [type |-> "offer", from |-> r])]
  /\ UNCHANGED <<catalogVars, transferVars, sig, http, ledger, rtc, stranger>>

\* setRemoteDescription(offer) followed by createAnswer and
\* setLocalDescription(answer).
answered(sess) == [sess EXCEPT !.remote = "offer", !.local = "answer"]

\* handleOffer.  setRemoteDescription of an offer on a connection that has
\* set an offer of its own either rejects, which ends the handler, or rolls
\* the local offer back, as the browser has it.
handleOffer(r, rollsBack) ==
  /\ Len(pair.net[r]) > 0 /\ Head(pair.net[r]).type = "offer"
  /\ LET sess == created(pair.sess[r], FALSE)
         glare == sess.local = "offer" /\ sess.remote = "none"
         rest == [pair.net EXCEPT ![r] = Tail(@)]
     IN IF glare /\ ~rollsBack
          THEN pair' = [pair EXCEPT !.sess[r] = sess, !.net = rest]
          ELSE pair' = [pair EXCEPT
                 !.sess[r] = answered(sess),
                 !.net = [rest EXCEPT ![Other(r)] =
                            Append(@, [type |-> "answer", from |-> r])]]
  /\ UNCHANGED <<catalogVars, transferVars, sig, http, ledger, rtc, stranger>>

\* handleAnswer: setRemoteDescription(answer), which rejects unless the
\* connection has set an offer and awaits its answer.
handleAnswer(r) ==
  /\ Len(pair.net[r]) > 0 /\ Head(pair.net[r]).type = "answer"
  /\ pair' = [pair EXCEPT
       !.net[r] = Tail(@),
       !.sess[r] = IF @.has /\ @.local = "offer" /\ @.remote = "none"
                     THEN [@ EXCEPT !.remote = "answer"] ELSE @]
  /\ UNCHANGED <<catalogVars, transferVars, sig, http, ledger, rtc, stranger>>

\* pc.onicecandidate: a candidate gathered once a local description is set is
\* sent to the peer.
iceCandidate(r) ==
  /\ pair.sess[r].has /\ pair.sess[r].local # "none"
  /\ pair.sess[r].gathered < MaxCandidates
  /\ pair' = [pair EXCEPT
       !.sess[r].gathered = @ + 1,
       !.net = SendSignal(Other(r), [type |-> "ice", from |-> r])]
  /\ UNCHANGED <<catalogVars, transferVars, sig, http, ledger, rtc, stranger>>

\* handleIceCandidate: nothing without a session for the sender;
\* addIceCandidate rejects while no remote description is set.
handleIceCandidate(r) ==
  /\ Len(pair.net[r]) > 0 /\ Head(pair.net[r]).type = "ice"
  /\ pair' = [pair EXCEPT
       !.net[r] = Tail(@),
       !.sess[r] = IF @.has /\ @.remote # "none"
                     THEN [@ EXCEPT !.candidates = @ + 1] ELSE @]
  /\ UNCHANGED <<catalogVars, transferVars, sig, http, ledger, rtc, stranger>>

\* The offer of one connection was answered by the other, and the answer set.
Negotiated(offerer, answerer) ==
  /\ offerer.has /\ offerer.initiator
  /\ offerer.local = "offer" /\ offerer.remote = "answer"
  /\ answerer.has /\ answerer.local = "answer" /\ answerer.remote = "offer"

\* dc.onopen: the data channel of a negotiated connection opens; ready.
channelOpen(r) ==
  /\ ~pair.sess[r].ready
  /\ \/ Negotiated(pair.sess[r], pair.sess[Other(r)])
     \/ Negotiated(pair.sess[Other(r)], pair.sess[r])
  /\ pair' = [pair EXCEPT !.sess[r].ready = TRUE]
  /\ UNCHANGED <<catalogVars, transferVars, sig, http, ledger, rtc, stranger>>

NextPair ==
  \/ \E r \in Replicas : peersRoster(r)
  \/ \E r \in Replicas : \E rollsBack \in BOOLEAN : handleOffer(r, rollsBack)
  \/ \E r \in Replicas : handleAnswer(r)
  \/ \E r \in Replicas : iceCandidate(r)
  \/ \E r \in Replicas : handleIceCandidate(r)
  \/ \E r \in Replicas : channelOpen(r)

\* Every signaling message that has arrived is handled, and a negotiated
\* channel opens.
PairFairness ==
  \A r \in Replicas :
    /\ WF_vars(\E rollsBack \in BOOLEAN : handleOffer(r, rollsBack))
    /\ WF_vars(handleAnswer(r))
    /\ WF_vars(iceCandidate(r))
    /\ WF_vars(handleIceCandidate(r))
    /\ WF_vars(channelOpen(r))

SpecPair == InitFresh /\ [][NextPair]_vars /\ PairFairness

\* C34: each of two peers of a room holds at most one session for the other,
\* whichever learnt of the other first and also when both were named the
\* other in a roster, and that session becomes ready.
OneReadySession ==
  /\ [](\A r \in Replicas : pair.sess[r].made <= 1)
  /\ \A r \in Replicas : pair.sess[r].has ~> pair.sess[r].ready

\* ================================================== timers of old requests
\* The step runs the setTimeout callback that is due next at r.
TimerRuns(r) == Due(r) # {} /\ timers'[r] = RemoveAt(timers[r], NextTimer(r))

\* C35: every request of an import settles, one made within the deadline of
\* an earlier request of the same key too: the timer of an earlier request
\* that has settled neither removes nor rejects the pending entry of a later
\* request.
SettledTimerSparesLater ==
  [][TimerRuns(Importer) =>
       LET t == timers[Importer][NextTimer(Importer)]
       IN (/\ ~Awaits(imports[Importer][t.call], t)
           /\ HasEntry(pendingRequests[Importer], t.key)
           /\ EntryOf(pendingRequests[Importer], t.key).call # t.call)
          => pendingRequests'[Importer] = pendingRequests[Importer]]_vars

\* ========================================================= sync quiesces
\* C36: after finitely many local writes the exchange of changes messages
\* ends, the rebroadcasts that applying a peer's changes causes included, and
\* no changes message is sent once all replicas hold the same change set.
SyncQuiesces ==
  /\ <>[][\A r \in Replicas : ~SentChanges(r)]_vars
  /\ [][\A r \in Replicas : SentChanges(r) => ~InSync]_vars

\* ===================================================== broadcast cursor
\* The peer o holds the change record c, or a changes message with c is on
\* its way to o.
Holds(o, c) ==
  LET res == ApplyBatch(db[o], <<c>>)
  IN ~res.threw /\ res.store = db[o]
OnItsWay(o, c) ==
  \E k \in 1..Len(inbox[o]) :
    /\ inbox[o][k].type = "changes"
    /\ \E j \in 1..Len(inbox[o][k].changes) : inbox[o][k].changes[j] = c

\* Every change record of r's database, as it is sent.
Records(r) ==
  LET rows == RowsFrom(db[r], 1)
  IN [i \in 1..Len(rows) |->
        [rows[i] EXCEPT !.pk = uint8ToBase64(@), !.site_id = uint8ToBase64(@)]]

UpdateWritesOnlyPatch ==
  [][\A r \in Replicas :
       (pending[r].op = "update" /\ pending'[r].op = "idle") =>
         \A c \in ColSet \ (pending[r].cols \cup {"updated_at"}) :
           db'[r].tbl[pending[r].id][c] = db[r].tbl[pending[r].id][c]]_vars

\* ===================================================== keys of the store
\* The site ids and paths of the file-start messages a peer sends: the ids
\* and paths are strings the peer chooses.
PutSites == {ServeSite, ServeSite \o Slash \o <<"assets">>, <<"s2">>}
PutPaths == {AppJs, <<"app", ".", "js">>, IndexHtml}

\* finalizeIncomingFile's storeFile(siteId, path, blob, contentType) for a
\* transfer of which no file was stored yet; the blob is the text of the
\* pair, and stored keeps what was put.
storeReceived(siteId, path) ==
  /\ ~\E p \in stored[Importer] : p.siteId = siteId /\ p.path = path
  /\ LET blob == siteId \o <<":">> \o path
     IN /\ files' = [files EXCEPT ![Importer] =
               storeFile(@, siteId, path, blob, guessContentType(path))]
        /\ stored' = [stored EXCEPT ![Importer] =
               @ \cup {[siteId |-> siteId, path |-> path, content |-> blob]}]
  /\ UNCHANGED <<catalogVars, pendingRequests, incomingTransfers, imports, tasks,
                 timers, clock, streamed, sig, http, sessionVars>>

NextPut == \E siteId \in PutSites, path \in PutPaths : storeReceived(siteId, path)

SpecPut == InitFresh /\ [][NextPut]_vars

\* C39: storeFile of a (siteId, path) leaves the record of every other pair
\* as it was, for any strings: every pair put once still has its record,
\* with the content put.
PutLocalToKey ==
  \A p \in stored[Importer] :
    \E f \in files[Importer] :
      f.siteId = p.siteId /\ f.path = p.path /\ f.content = p.content

\* ============================================ disconnect stops reconnection
\* C40: once the caller has invoked disconnect, and until it connects again,
\* no socket is opened, no reconnect is scheduled and reconnecting is not
\* emitted, also when a backoff timer set before the disconnect runs after it.
DisconnectStopsReconnection ==
  [][~sig'.shouldReconnect =>
       /\ sig'.ws \notin {"connecting", "open"}
       /\ sig'.retries = sig.retries
       /\ sig'.timer # 0 => sig'.timer = sig.timer
       /\ sig'.lastEvent.type = "reconnecting" => sig'.lastEvent = sig.lastEvent]_vars

\* disconnect was invoked while a backoff timer was set, and the timer has
\* run since: reconnecting is the last event emitted and no socket was opened.
TimerRanAfterDisconnect ==
  /\ ~sig.shouldReconnect
  /\ sig.timer = 0
  /\ sig.ws = "closed"
  /\ sig.lastEvent.type = "reconnecting"

====
